---------------------------- MODULE Spec2Model ----------------------------
(***************************************************************************)
(* State-machine model of sc4-custom-budget-departments: the               *)
(* CustomBudgetDepartmentManager message handlers, the LineItemTransaction *)
(* record with its transaction algorithms, the algorithm factory and the   *)
(* persisted registry stream.                                              *)
(*                                                                         *)
(* Conventions                                                             *)
(*  - a uint32_t is held as the integer of its 32-bit pattern read as a    *)
(*    two's-complement int32 (0xEA597195 is -363236971), so that every     *)
(*    4-byte pattern of a stream has a value;                              *)
(*  - an int64_t is held as an integer; the streams and exemplars of the   *)
(*    model hold values that fit 32 bits, and a read of eight bytes that   *)
(*    do not yields the record [hi, lo] of the two 32-bit halves;          *)
(*  - a float is held as its IEEE-754 fields [s, e, m];                    *)
(*  - a stream is a sequence of bytes, read from a 1-based position.       *)
(***************************************************************************)
EXTENDS Integers, Sequences, FiniteSets, TLC

(***************************************************************************)
(* Bounds of the model.                                                    *)
(***************************************************************************)
\* largest department id and line number used by the modelled buildings
MaxDept == 2
MaxLine == 2
\* number of messages and changes of figures in one run
MaxEvents == 3

(***************************************************************************)
(* Program constants.                                                      *)
(***************************************************************************)
kBudgetGroupBusinessDeals == 173699793
kBudgetGroupCityBeautification == 1781889942
kBudgetGroupGovernmentBuildings == -363236971
kBudgetGroupHealthAndEducation == 1781889919
kBudgetGroupPublicSafety == 1245018944
kBudgetGroupTransportation == -1439264679
kBudgetGroupUtilities == 1245019823
kOccupantType_Building == 662775968
kCustomBudgetDepartmentExpensePurposeId == -2017642096
kCustomBudgetDepartmentIncomePurposeId == 1176900134

\* enum class TransactionAlgorithmType
Fixed == 0
ResidentialTotalPopulation == 1
ResidentialWealthGroupPopulation == 2
Tourism == 3

\* the version written in front of the registry and of every transaction
kRegistryVersion == 1
kTransactionVersion == 1

(***************************************************************************)
(* Fixed-width values and their byte images.                               *)
(***************************************************************************)
RECURSIVE Pow2(_)
Pow2(n) == IF n = 0 THEN 1 ELSE 2 * Pow2(n - 1)

\* C++ integer division truncates toward zero
TruncDiv(a, b) ==
    IF (a >= 0) = (b > 0) THEN (IF a >= 0 THEN a \div b ELSE (-a) \div (-b))
    ELSE -((IF a >= 0 THEN a ELSE -a) \div (IF b > 0 THEN b ELSE -b))

\* cIGZOStream::SetUint32: four bytes, little endian
U32Bytes(v) ==
    << v % 256, (v \div 256) % 256, (v \div 65536) % 256, (v \div 16777216) % 256 >>

\* cIGZIStream::GetUint32
U32Of(b) ==
    b[1] + 256 * b[2] + 65536 * b[3]
      + 16777216 * (IF b[4] >= 128 THEN b[4] - 256 ELSE b[4])

\* cIGZOStream::SetSint64: eight bytes, little endian, of a value that
\* fits 32 bits
I64Bytes(v) ==
    U32Bytes(v) \o (IF v < 0 THEN <<255, 255, 255, 255>> ELSE <<0, 0, 0, 0>>)

\* cIGZIStream::GetSint64
I64Of(b) ==
    LET lo == U32Of(SubSeq(b, 1, 4))
        hi == U32Of(SubSeq(b, 5, 8))
    IN  IF (hi = 0 /\ lo >= 0) \/ (hi = -1 /\ lo < 0) THEN lo
        ELSE [hi |-> hi, lo |-> lo]

\* a float as its IEEE-754 single precision fields
MkFloat(s, e, m) == [s |-> s, e |-> e, m |-> m]
FZero == MkFloat(0, 0, 0)
\* 0.005f = 0x3BA3D70A
FDefaultPopulationFactor == MkFloat(0, 119, 2348810)

\* cIGZOStream::SetFloat32
F32Bytes(f) ==
    << f.m % 256, (f.m \div 256) % 256,
       (f.e % 2) * 128 + (f.m \div 65536), f.s * 128 + (f.e \div 2) >>

\* cIGZIStream::GetFloat32
F32Of(b) ==
    MkFloat(b[4] \div 128, (b[4] % 128) * 2 + (b[3] \div 128),
            (b[3] % 128) * 65536 + b[2] * 256 + b[1])

\* static_cast<int64_t>(static_cast<double>(p) * static_cast<double>(f)),
\* for a population 0 <= p < 2^19: the product is exact in a double and the
\* cast truncates toward zero.
TruncMul(p, f) ==
    LET M == IF f.e = 0 THEN f.m ELSE 8388608 + f.m
        n == IF f.e = 0 THEN 149 ELSE 150 - f.e
        mag == IF n >= 12
               THEN IF n - 12 >= 31 THEN 0
                    ELSE (p * (M \div 4096) + ((p * (M % 4096)) \div 4096))
                           \div Pow2(n - 12)
               ELSE IF n >= 0 THEN (p * M) \div Pow2(n)
               ELSE p * M * Pow2(-n)
    IN  IF f.s = 1 THEN -mag ELSE mag

\* a float as a fraction in lowest terms, [num, shift]: the float is
\* num / 2^shift
RECURSIVE LowestTerms(_, _)
LowestTerms(num, shift) ==
    IF num = 0 THEN [num |-> 0, shift |-> 0]
    ELSE IF shift > 0 /\ num % 2 = 0 THEN LowestTerms(num \div 2, shift - 1)
    ELSE [num |-> num, shift |-> shift]

FractionOf(f) ==
    LET M == IF f.e = 0 THEN f.m ELSE 8388608 + f.m
        n == IF f.e = 0 THEN 149 ELSE 150 - f.e
        signed == IF f.s = 1 THEN -M ELSE M
    IN  IF n >= 0 THEN LowestTerms(signed, n)
        ELSE [num |-> signed * Pow2(-n), shift |-> 0]

\* the product of a population and a float, cut toward zero
ExactTrunc(p, f) ==
    LET d == FractionOf(f)
        mag == (p * (IF d.num < 0 THEN -d.num ELSE d.num)) \div Pow2(d.shift)
    IN  IF d.num < 0 THEN -mag ELSE mag

(***************************************************************************)
(* Streams (cIGZIStream / cIGZOStream of the host).  A read that finds     *)
(* fewer bytes than it needs fails, leaves the destination as it was and   *)
(* leaves the stream exhausted.                                            *)
(***************************************************************************)
\* x is evaluated, once, and F is applied to its value: the steps of a
\* handler that run one after the other
Bind(x, F(_)) == CHOOSE y \in {F(v) : v \in {x}} : TRUE

GetVoid(s, p, n) ==
    IF p + n - 1 <= Len(s)
    THEN [ok |-> TRUE, bytes |-> SubSeq(s, p, p + n - 1), pos |-> p + n]
    ELSE [ok |-> FALSE, bytes |-> <<>>, pos |-> Len(s) + 1]

GetUint32(s, p, dflt) ==
    LET r == GetVoid(s, p, 4)
    IN  [ok |-> r.ok, v |-> IF r.ok THEN U32Of(r.bytes) ELSE dflt, pos |-> r.pos]

GetSint64(s, p, dflt) ==
    LET r == GetVoid(s, p, 8)
    IN  [ok |-> r.ok, v |-> IF r.ok THEN I64Of(r.bytes) ELSE dflt, pos |-> r.pos]

GetFloat32(s, p, dflt) ==
    LET r == GetVoid(s, p, 4)
    IN  [ok |-> r.ok, v |-> IF r.ok THEN F32Of(r.bytes) ELSE dflt, pos |-> r.pos]

ReadBoolean(s, p, dflt) ==
    LET r == GetVoid(s, p, 1)
    IN  [ok |-> r.ok, v |-> IF r.ok THEN r.bytes[1] # 0 ELSE dflt, pos |-> r.pos]

WriteBoolean(value) == << IF value THEN 1 ELSE 0 >>

(***************************************************************************)
(* PopulationProvider queries.  pp is the provider's state, city the live  *)
(* figures of the host's residential and demand simulators.                *)
(***************************************************************************)
kLowWealthDemandId == 4112
kMediumWealthDemandId == 4128
kHighWealthDemandId == 4144

GetCityResidentialPopulation(pp, city) ==
    IF pp.pResidentialSimulator THEN city.population ELSE 0

GetCityPopulation(pp, city, demandId) ==
    IF pp.pDemandSimulator /\ demandId \in DOMAIN city.supply
    THEN city.supply[demandId] ELSE 0

GetRegionResidentialPopulation(pp) == pp.regionResidentialPopulation

GetRegionPopulation(pp, demandId) ==
    IF demandId = kLowWealthDemandId THEN pp.regionResidentialLowWealthPopulation
    ELSE IF demandId = kMediumWealthDemandId THEN pp.regionResidentialMediumWealthPopulation
    ELSE IF demandId = kHighWealthDemandId THEN pp.regionResidentialHighWealthPopulation
    ELSE 0

(***************************************************************************)
(* Transaction algorithms.  An algorithm is [type, factors,                *)
(* geopoliticsFactor]; the null ITransactionAlgorithm pointer (Fixed) is   *)
(* NoAlgorithm.  A calculation yields [v, fault].                          *)
(***************************************************************************)
MkAlgorithm(type, factors, geopoliticsFactor) ==
    [type |-> type, factors |-> factors, geopoliticsFactor |-> geopoliticsFactor]

NoAlgorithm == MkAlgorithm(Fixed, <<>>, 0)

ResidentialTotalPopulationAlgorithm(factor) ==
    MkAlgorithm(ResidentialTotalPopulation, <<factor>>, 0)

ResidentialWealthGroupPopulationAlgorithm(low, medium, high) ==
    MkAlgorithm(ResidentialWealthGroupPopulation, <<low, medium, high>>, 0)

TourismAlgorithm(tourismFactor, geopoliticsFactor) ==
    MkAlgorithm(Tourism, <<tourismFactor>>, geopoliticsFactor)

\* Calculate, had it replaced the initial total instead of adding to it
ResidentialTotalPopulationCalculateReplacingTotal(alg, initialTotal, pp, city) ==
    TruncMul(GetCityResidentialPopulation(pp, city), alg.factors[1])

ResidentialTotalPopulationCalculate(alg, initialTotal, pp, city) ==
    initialTotal + TruncMul(GetCityResidentialPopulation(pp, city), alg.factors[1])

\* Calculate, had it cut the sum of the three products instead of each of
\* them
ResidentialWealthGroupPopulationCalculateSummingFirst(alg, initialTotal, pp, city) ==
    LET low == FractionOf(alg.factors[1])
        medium == FractionOf(alg.factors[2])
        high == FractionOf(alg.factors[3])
        shift == IF low.shift >= medium.shift /\ low.shift >= high.shift THEN low.shift
                 ELSE IF medium.shift >= high.shift THEN medium.shift ELSE high.shift
    IN  initialTotal
          + TruncDiv(GetCityPopulation(pp, city, kLowWealthDemandId) * low.num
                         * Pow2(shift - low.shift)
                       + GetCityPopulation(pp, city, kMediumWealthDemandId) * medium.num
                           * Pow2(shift - medium.shift)
                       + GetCityPopulation(pp, city, kHighWealthDemandId) * high.num
                           * Pow2(shift - high.shift),
                     Pow2(shift))

ResidentialWealthGroupPopulationCalculate(alg, initialTotal, pp, city) ==
    initialTotal
      + TruncMul(GetCityPopulation(pp, city, kLowWealthDemandId), alg.factors[1])
      + TruncMul(GetCityPopulation(pp, city, kMediumWealthDemandId), alg.factors[2])
      + TruncMul(GetCityPopulation(pp, city, kHighWealthDemandId), alg.factors[3])

GetRegionalTourismPopulation(alg, pp, demandId) ==
    TruncMul(GetRegionPopulation(pp, demandId), alg.factors[1])

TourismPopulationSum(alg, pp, city) ==
    GetCityPopulation(pp, city, kLowWealthDemandId)
      + GetCityPopulation(pp, city, kMediumWealthDemandId)
      + GetCityPopulation(pp, city, kHighWealthDemandId)
      + GetRegionalTourismPopulation(alg, pp, kLowWealthDemandId)
      + GetRegionalTourismPopulation(alg, pp, kMediumWealthDemandId)
      + GetRegionalTourismPopulation(alg, pp, kHighWealthDemandId)

\* the integer division by a zero geopoliticsFactor traps
TourismCalculate(alg, initialTotal, pp, city) ==
    IF alg.geopoliticsFactor = 0 THEN [v |-> initialTotal, fault |-> "divide"]
    ELSE [v |-> initialTotal
                  + TruncDiv(TourismPopulationSum(alg, pp, city), alg.geopoliticsFactor),
          fault |-> "none"]

Calculate(alg, initialTotal, pp, city) ==
    IF alg.type = ResidentialTotalPopulation
    THEN [v |-> ResidentialTotalPopulationCalculate(alg, initialTotal, pp, city),
          fault |-> "none"]
    ELSE IF alg.type = ResidentialWealthGroupPopulation
    THEN [v |-> ResidentialWealthGroupPopulationCalculate(alg, initialTotal, pp, city),
          fault |-> "none"]
    ELSE TourismCalculate(alg, initialTotal, pp, city)

\* TransactionAlgorithmFactory::Create(TransactionAlgorithmType): the
\* instance the default constructor of each class builds, or a throw
CreateFromType(type) ==
    IF type = Fixed THEN [threw |-> FALSE, algorithm |-> NoAlgorithm]
    ELSE IF type = ResidentialTotalPopulation
    THEN [threw |-> FALSE,
          algorithm |-> ResidentialTotalPopulationAlgorithm(FDefaultPopulationFactor)]
    ELSE IF type = ResidentialWealthGroupPopulation
    THEN [threw |-> FALSE,
          algorithm |-> ResidentialWealthGroupPopulationAlgorithm(FZero, FZero, FZero)]
    ELSE IF type = Tourism
    THEN [threw |-> FALSE, algorithm |-> TourismAlgorithm(FZero, 0)]
    ELSE [threw |-> TRUE, algorithm |-> NoAlgorithm]

\* ITransactionAlgorithm::Write of the three classes
AlgorithmWrite(alg) ==
    IF alg.type = ResidentialTotalPopulation THEN F32Bytes(alg.factors[1])
    ELSE IF alg.type = ResidentialWealthGroupPopulation
    THEN F32Bytes(alg.factors[1]) \o F32Bytes(alg.factors[2]) \o F32Bytes(alg.factors[3])
    ELSE F32Bytes(alg.factors[1]) \o I64Bytes(alg.geopoliticsFactor)

\* ITransactionAlgorithm::Read of the three classes, into the instance alg;
\* the && chains stop at the first read that fails
AlgorithmRead(alg, s, p) ==
    IF alg.type = ResidentialTotalPopulation
    THEN Bind(GetFloat32(s, p, alg.factors[1]), LAMBDA a :
           [ok |-> a.ok, pos |-> a.pos,
            algorithm |-> ResidentialTotalPopulationAlgorithm(a.v)])
    ELSE IF alg.type = ResidentialWealthGroupPopulation
    THEN Bind(GetFloat32(s, p, alg.factors[1]), LAMBDA a :
         Bind(IF a.ok THEN GetFloat32(s, a.pos, alg.factors[2])
              ELSE [ok |-> FALSE, v |-> alg.factors[2], pos |-> a.pos], LAMBDA b :
         Bind(IF b.ok THEN GetFloat32(s, b.pos, alg.factors[3])
              ELSE [ok |-> FALSE, v |-> alg.factors[3], pos |-> b.pos], LAMBDA c :
           [ok |-> c.ok, pos |-> c.pos,
            algorithm |-> ResidentialWealthGroupPopulationAlgorithm(a.v, b.v, c.v)])))
    ELSE Bind(GetFloat32(s, p, alg.factors[1]), LAMBDA a :
         Bind(IF a.ok THEN GetSint64(s, a.pos, alg.geopoliticsFactor)
              ELSE [ok |-> FALSE, v |-> alg.geopoliticsFactor, pos |-> a.pos], LAMBDA b :
           [ok |-> b.ok, pos |-> b.pos, algorithm |-> TourismAlgorithm(a.v, b.v)]))

(***************************************************************************)
(* LineItemTransaction.                                                    *)
(***************************************************************************)
MkTransaction(algorithm, perBuildingFixedCashFlow, isIncome) ==
    [algorithm |-> algorithm,
     perBuildingFixedCashFlow |-> perBuildingFixedCashFlow,
     isIncome |-> isIncome]

\* LineItemTransaction::LineItemTransaction()
DefaultTransaction == MkTransaction(NoAlgorithm, 0, FALSE)

IsFixedCost(tx) == tx.algorithm = NoAlgorithm

IsIncome(tx) == tx.isIncome

\* a CalculateLineItemTotal that lets the population figures into the total
\* of a fixed-cost transaction
CalculateLineItemTotalWithPopulation(tx, buildingCount, pp, city) ==
    IF buildingCount > 0
    THEN LET total == tx.perBuildingFixedCashFlow * buildingCount
         IN  IF tx.algorithm # NoAlgorithm
             THEN Calculate(tx.algorithm, total, pp, city)
             ELSE [v |-> total + GetCityResidentialPopulation(pp, city),
                   fault |-> "none"]
    ELSE [v |-> 0, fault |-> "none"]

\* a CalculateLineItemTotal that does not look at the sign of the count
CalculateLineItemTotalOfAnyCount(tx, buildingCount, pp, city) ==
    LET total == tx.perBuildingFixedCashFlow * buildingCount
    IN  IF tx.algorithm # NoAlgorithm
        THEN Calculate(tx.algorithm, total, pp, city)
        ELSE [v |-> total, fault |-> "none"]

CalculateLineItemTotal(tx, buildingCount, pp, city) ==
    IF buildingCount > 0
    THEN LET total == tx.perBuildingFixedCashFlow * buildingCount
         IN  IF tx.algorithm # NoAlgorithm
             THEN Calculate(tx.algorithm, total, pp, city)
             ELSE [v |-> total, fault |-> "none"]
    ELSE [v |-> 0, fault |-> "none"]

\* a LineItemTransaction::Write that writes no type tag for a transaction
\* without an algorithm
TransactionWriteWithoutFixedTag(tx) ==
    U32Bytes(kTransactionVersion)
      \o I64Bytes(tx.perBuildingFixedCashFlow)
      \o WriteBoolean(tx.isIncome)
      \o (IF tx.algorithm # NoAlgorithm
          THEN U32Bytes(tx.algorithm.type) \o AlgorithmWrite(tx.algorithm)
          ELSE <<>>)

\* LineItemTransaction::Write
TransactionWrite(tx) ==
    U32Bytes(kTransactionVersion)
      \o I64Bytes(tx.perBuildingFixedCashFlow)
      \o WriteBoolean(tx.isIncome)
      \o (IF tx.algorithm # NoAlgorithm
          THEN U32Bytes(tx.algorithm.type) \o AlgorithmWrite(tx.algorithm)
          ELSE U32Bytes(Fixed))

\* LineItemTransaction::Read into the transaction tx, from position p:
\* [ok, threw, tx, pos]
TransactionRead(tx, s, p) ==
    Bind(GetUint32(s, p, 0), LAMBDA version :
      IF ~version.ok \/ version.v # kTransactionVersion
      THEN [ok |-> FALSE, threw |-> FALSE, tx |-> tx, pos |-> version.pos]
      ELSE
    Bind(GetSint64(s, version.pos, tx.perBuildingFixedCashFlow), LAMBDA cash :
      IF ~cash.ok
      THEN [ok |-> FALSE, threw |-> FALSE, tx |-> tx, pos |-> cash.pos]
      ELSE
    Bind(ReadBoolean(s, cash.pos, tx.isIncome), LAMBDA income :
      IF ~income.ok
      THEN [ok |-> FALSE, threw |-> FALSE,
            tx |-> MkTransaction(tx.algorithm, cash.v, tx.isIncome), pos |-> income.pos]
      ELSE
    Bind(GetUint32(s, income.pos, 0), LAMBDA type :
      IF ~type.ok
      THEN [ok |-> FALSE, threw |-> FALSE,
            tx |-> MkTransaction(tx.algorithm, cash.v, income.v), pos |-> type.pos]
      ELSE
    Bind(CreateFromType(type.v), LAMBDA made :
      IF made.threw
      THEN [ok |-> FALSE, threw |-> TRUE,
            tx |-> MkTransaction(tx.algorithm, cash.v, income.v), pos |-> type.pos]
      ELSE IF made.algorithm # NoAlgorithm
      THEN Bind(AlgorithmRead(made.algorithm, s, type.pos), LAMBDA r :
             [ok |-> r.ok, threw |-> FALSE,
              tx |-> MkTransaction(r.algorithm, cash.v, income.v), pos |-> r.pos])
      ELSE [ok |-> TRUE, threw |-> FALSE,
            tx |-> MkTransaction(NoAlgorithm, cash.v, income.v), pos |-> type.pos])))))


(***************************************************************************)
(* The registry customBudgetDepartments: department id -> (line number ->  *)
(* LineItemTransaction), as functions over the set of keys present.        *)
(***************************************************************************)
EmptyMap == [k \in {} |-> 0]

MapPut(f, k, v) == [x \in (DOMAIN f) \cup {k} |-> IF x = k THEN v ELSE f[x]]

\* unordered_map::emplace / try_emplace keep an existing entry
MapEmplace(f, k, v) == IF k \in DOMAIN f THEN f ELSE MapPut(f, k, v)

MapErase(f, k) == [x \in (DOMAIN f) \ {k} |-> f[x]]

\* the order in which an unordered_map is iterated is not specified: the
\* model iterates in ascending or in descending key order
RECURSIVE KeysInOrder(_, _)
KeysInOrder(S, ascending) ==
    IF S = {} THEN <<>>
    ELSE LET k == IF ascending
                  THEN CHOOSE x \in S : \A y \in S : x <= y
                  ELSE CHOOSE x \in S : \A y \in S : x >= y
         IN  <<k>> \o KeysInOrder(S \ {k}, ascending)

RECURSIVE WriteLineItems(_, _, _)
WriteLineItems(lineItems, order, i) ==
    IF i > Len(order) THEN <<>>
    ELSE U32Bytes(order[i]) \o TransactionWrite(lineItems[order[i]])
           \o WriteLineItems(lineItems, order, i + 1)

RECURSIVE WriteDepartments(_, _, _, _)
WriteDepartments(reg, order, i, ascending) ==
    IF i > Len(order) THEN <<>>
    ELSE LET lineItems == reg[order[i]]
         IN  U32Bytes(order[i]) \o U32Bytes(Cardinality(DOMAIN lineItems))
               \o WriteLineItems(lineItems, KeysInOrder(DOMAIN lineItems, ascending), 1)
               \o WriteDepartments(reg, order, i + 1, ascending)

\* CustomBudgetDepartmentManager::WriteToDBSegment
WriteToDBSegment(reg, ascending) ==
    U32Bytes(kRegistryVersion) \o U32Bytes(Cardinality(DOMAIN reg))
      \o WriteDepartments(reg, KeysInOrder(DOMAIN reg, ascending), 1, ascending)

\* unordered_map::reserve of a count of 2^31 or more buckets throws
\* std::length_error in a 32-bit process
ReserveThrows(count) == count < 0

\* the inner loop of ReadFromDBSegment, n iterations left: [lineItems, pos,
\* threw].  Once the stream is exhausted every further iteration reads the
\* same (line 0, default transaction) and emplaces nothing new, so the loop
\* is cut after the first of them.
RECURSIVE ReadLineItems(_, _, _, _)
ReadLineItems(s, p, n, lineItems) ==
    IF n = 0 THEN [lineItems |-> lineItems, pos |-> p, threw |-> FALSE]
    ELSE
    Bind(GetUint32(s, p, 0), LAMBDA lineItemId :
    Bind(TransactionRead(DefaultTransaction, s, lineItemId.pos), LAMBDA r :
    Bind(MapEmplace(lineItems, lineItemId.v, r.tx), LAMBDA next :
      IF r.threw THEN [lineItems |-> lineItems, pos |-> r.pos, threw |-> TRUE]
      ELSE IF p > Len(s) THEN [lineItems |-> next, pos |-> r.pos, threw |-> FALSE]
      ELSE ReadLineItems(s, r.pos, n - 1, next))))

\* the outer loop of ReadFromDBSegment, n iterations left: [reg, threw]
RECURSIVE ReadDepartments(_, _, _, _)
ReadDepartments(s, p, n, reg) ==
    IF n = 0 THEN [reg |-> reg, threw |-> FALSE]
    ELSE
    Bind(GetUint32(s, p, 0), LAMBDA departmentId :
    Bind(GetUint32(s, departmentId.pos, 0), LAMBDA lineItemCount :
      IF ReserveThrows(lineItemCount.v) THEN [reg |-> reg, threw |-> TRUE]
      ELSE
    Bind(ReadLineItems(s, lineItemCount.pos, lineItemCount.v, EmptyMap), LAMBDA r :
    Bind(MapEmplace(reg, departmentId.v, r.lineItems), LAMBDA next :
      IF r.threw THEN [reg |-> reg, threw |-> TRUE]
      ELSE IF p > Len(s) THEN [reg |-> next, threw |-> FALSE]
      ELSE ReadDepartments(s, r.pos, n - 1, next)))))

\* the mutation of ReadFromDBSegment that clears the registry before it
\* looks at the version
ReadFromDBSegmentClearingFirst(reg, s) ==
    Bind(GetUint32(s, 1, 0), LAMBDA version :
      IF version.ok /\ version.v = kRegistryVersion
      THEN Bind(GetUint32(s, version.pos, 0), LAMBDA departmentCount :
             IF ReserveThrows(departmentCount.v)
             THEN [reg |-> EmptyMap, threw |-> TRUE]
             ELSE ReadDepartments(s, departmentCount.pos, departmentCount.v,
                                  EmptyMap))
      ELSE [reg |-> EmptyMap, threw |-> FALSE])

\* CustomBudgetDepartmentManager::ReadFromDBSegment: [reg, threw]
ReadFromDBSegment(reg, s) ==
    Bind(GetUint32(s, 1, 0), LAMBDA version :
      IF version.ok /\ version.v = kRegistryVersion
      THEN Bind(GetUint32(s, version.pos, 0), LAMBDA departmentCount :
             IF ReserveThrows(departmentCount.v)
             THEN [reg |-> EmptyMap, threw |-> TRUE]
             ELSE ReadDepartments(s, departmentCount.pos, departmentCount.v,
                                  EmptyMap))
      ELSE [reg |-> reg, threw |-> FALSE])

(***************************************************************************)
(* Building exemplars (cISCPropertyHolder).  A holder is a record of the   *)
(* properties the plugin reads; a property is [type, values], with type    *)
(* "None" for a property the exemplar does not have.                       *)
(***************************************************************************)
NoProperty == [type |-> "None", values |-> <<>>]
Uint32Array(values) == [type |-> "Uint32Array", values |-> values]
Sint64Array(values) == [type |-> "Sint64Array", values |-> values]
Float32(value) == [type |-> "Float32", values |-> <<value>>]
Float32Array(values) == [type |-> "Float32Array", values |-> values]

\* GetPropertyValue(..., std::vector<uint32_t>&)
GetUint32Vector(property) ==
    IF property.type = "Uint32Array"
    THEN [ok |-> TRUE, values |-> property.values]
    ELSE [ok |-> FALSE, values |-> <<>>]

\* GetPropertyValue(..., std::vector<int64_t>&)
GetSint64Vector(property) ==
    IF property.type = "Sint64Array"
    THEN [ok |-> TRUE, values |-> property.values]
    ELSE [ok |-> FALSE, values |-> <<>>]

\* groups of `width` values keyed by their first value, try_emplace'd in order
RECURSIVE GroupsToMap(_, _, _, _)
GroupsToMap(values, width, i, acc) ==
    IF i > Len(values) THEN acc
    ELSE GroupsToMap(values, width, i + width,
                     MapEmplace(acc, values[i], SubSeq(values, i + 1, i + width - 1)))

\* GetPropertyValue(..., std::unordered_map<uint32_t, uint32_t>&)
GetUint32PairMap(property) ==
    IF property.type = "Uint32Array" /\ Len(property.values) >= 2
         /\ Len(property.values) % 2 = 0
    THEN [ok |-> TRUE, values |-> GroupsToMap(property.values, 2, 1, EmptyMap)]
    ELSE [ok |-> FALSE, values |-> EmptyMap]

\* GetBudgetDepartmentNameProperty
GetBudgetDepartmentNameProperty(property) ==
    IF property.type = "Uint32Array" /\ Len(property.values) >= 3
         /\ Len(property.values) % 3 = 0
    THEN [ok |-> TRUE, values |-> GroupsToMap(property.values, 3, 1, EmptyMap)]
    ELSE [ok |-> FALSE, values |-> EmptyMap]

\* the test, had it asked for every purpose id to be a custom one
ContainsOnlyCustomBudgetDepartmentPurposeIds(purposeIds) ==
    /\ Len(purposeIds) > 0
    /\ \A i \in 1..Len(purposeIds) :
          purposeIds[i] \in {kCustomBudgetDepartmentExpensePurposeId,
                             kCustomBudgetDepartmentIncomePurposeId}

ContainsCustomBudgetDepartmentPurposeId(purposeIds) ==
    \E i \in 1..Len(purposeIds) :
        purposeIds[i] \in {kCustomBudgetDepartmentExpensePurposeId,
                           kCustomBudgetDepartmentIncomePurposeId}

\* enum class CustomBudgetDepartmentItemType
ItemTypeOf(purposeId) ==
    IF purposeId = kCustomBudgetDepartmentExpensePurposeId THEN "Expense"
    ELSE IF purposeId = kCustomBudgetDepartmentIncomePurposeId THEN "Income"
    ELSE "Invalid"

CustomBudgetDepartmentInfo(type, department, line, budgetGroup, cost, nameKey) ==
    [type |-> type, department |-> department, lineNumber |-> line,
     budgetGroup |-> budgetGroup, cost |-> cost, departmentNameKey |-> nameKey]

RECURSIVE CollectInfo(_, _, _, _, _, _, _)
CollectInfo(purposeIds, departmentIds, lines, costs, budgetGroups, nameKeys, i) ==
    IF i > Len(departmentIds) THEN <<>>
    ELSE LET type == ItemTypeOf(purposeIds[i])
             departmentId == departmentIds[i]
             rest == CollectInfo(purposeIds, departmentIds, lines, costs,
                                 budgetGroups, nameKeys, i + 1)
         IN  IF type # "Invalid" /\ departmentId \in DOMAIN budgetGroups
                 /\ departmentId \in DOMAIN nameKeys
             THEN << CustomBudgetDepartmentInfo(type, departmentId, lines[i],
                        budgetGroups[departmentId][1], costs[i],
                        nameKeys[departmentId]) >> \o rest
             ELSE rest

\* the extraction, had it not compared the length of the line numbers
LoadCustomBudgetDepartmentInfoOfAnyLines(holder) ==
    LET purposeIds == GetUint32Vector(holder.purpose)
        departmentIds == GetUint32Vector(holder.department)
        lines == GetUint32Vector(holder.line)
        costs == GetSint64Vector(holder.cost)
        budgetGroups == GetUint32PairMap(holder.budgetGroup)
        nameKeys == GetBudgetDepartmentNameProperty(holder.nameKey)
        budgetDepartmentCount == Len(departmentIds.values)
    IN  IF purposeIds.ok /\ ContainsCustomBudgetDepartmentPurposeId(purposeIds.values)
            /\ departmentIds.ok /\ lines.ok /\ costs.ok /\ budgetGroups.ok /\ nameKeys.ok
            /\ Len(purposeIds.values) = budgetDepartmentCount
            /\ Len(lines.values) >= budgetDepartmentCount
            /\ Len(costs.values) = budgetDepartmentCount
            /\ Cardinality(DOMAIN nameKeys.values) = Cardinality(DOMAIN budgetGroups.values)
        THEN CollectInfo(purposeIds.values, departmentIds.values, lines.values,
                         costs.values, budgetGroups.values, nameKeys.values, 1)
        ELSE <<>>

\* CustomBudgetDepartmentManager::LoadCustomBudgetDepartmentInfo
LoadCustomBudgetDepartmentInfo(holder) ==
    LET purposeIds == GetUint32Vector(holder.purpose)
        departmentIds == GetUint32Vector(holder.department)
        lines == GetUint32Vector(holder.line)
        costs == GetSint64Vector(holder.cost)
        budgetGroups == GetUint32PairMap(holder.budgetGroup)
        nameKeys == GetBudgetDepartmentNameProperty(holder.nameKey)
        budgetDepartmentCount == Len(departmentIds.values)
    IN  IF purposeIds.ok /\ ContainsCustomBudgetDepartmentPurposeId(purposeIds.values)
            /\ departmentIds.ok /\ lines.ok /\ costs.ok /\ budgetGroups.ok /\ nameKeys.ok
            /\ Len(purposeIds.values) = budgetDepartmentCount
            /\ Len(lines.values) = budgetDepartmentCount
            /\ Len(costs.values) = budgetDepartmentCount
            /\ Cardinality(DOMAIN nameKeys.values) = Cardinality(DOMAIN budgetGroups.values)
        THEN CollectInfo(purposeIds.values, departmentIds.values, lines.values,
                         costs.values, budgetGroups.values, nameKeys.values, 1)
        ELSE <<>>

(***************************************************************************)
(* TransactionAlgorithmFactory::Create from a building's exemplar.         *)
(* Results are [threw, fault, algorithm]: threw for a                      *)
(* CreateTransactionAlgorithmException, fault for a process that went      *)
(* down.  Where the code has undefined behaviour, ub names what the build  *)
(* makes of it: the process goes down ("crash"), the call ends in a        *)
(* CreateTransactionAlgorithmException ("throw"), or it goes on with       *)
(* whatever the memory held ("garbage").                                   *)
(***************************************************************************)
UndefinedOutcomes == {"crash", "throw", "garbage"}

Made(algorithm) == [threw |-> FALSE, fault |-> "none", algorithm |-> algorithm]
Threw == [threw |-> TRUE, fault |-> "none", algorithm |-> NoAlgorithm]
Undefined == [threw |-> FALSE, fault |-> "undefined", algorithm |-> NoAlgorithm]

\* GetPropertyValue(..., float&)
GetFloatValue(property) ==
    IF property.type = "Float32"
         \/ (property.type = "Float32Array" /\ Len(property.values) = 1)
    THEN [ok |-> TRUE, value |-> property.values[1]]
    ELSE [ok |-> FALSE, value |-> FZero]

\* GetPropertyValue(..., std::vector<float>&)
GetFloatVector(property) ==
    IF property.type = "Float32Array"
    THEN [ok |-> TRUE, values |-> property.values]
    ELSE [ok |-> FALSE, values |-> <<>>]

kSizeMax == -1

\* FindLineItemDataStartIndex: the 0-based index of the group, or SIZE_MAX
FindLineItemDataStartIndex(data, lineNumber, groupCountWithLineNumber) ==
    LET count == Len(data)
        hits == {i \in 0..(count - 1) :
                    i % groupCountWithLineNumber = 0 /\ data[i + 1] = lineNumber}
    IN  IF count >= groupCountWithLineNumber
            /\ count % groupCountWithLineNumber = 0 /\ hits # {}
        THEN CHOOSE i \in hits : \A j \in hits : i <= j
        ELSE kSizeMax

\* the copy loop of GetLineItemData: pData[i] for i from start + 1 while
\* i < groupCountWithLineNumber
RECURSIVE CopyLineItemData(_, _, _)
CopyLineItemData(data, i, groupCountWithLineNumber) ==
    IF i < groupCountWithLineNumber
    THEN <<data[i + 1]>> \o CopyLineItemData(data, i + 1, groupCountWithLineNumber)
    ELSE <<>>

\* GetLineItemData: [threw, fault, data].  When the line is not found the
\* error message is formatted with a %s that is given the line number,
\* which is undefined behaviour: the process goes down while it formats the
\* message, or the message is formatted from whatever the argument points
\* at and the exception is thrown.
GetLineItemData(property, lineNumber, groupCountWithLineNumber, ub) ==
    IF property.type = "None"
    THEN [threw |-> TRUE, fault |-> "none", data |-> <<>>]
    ELSE IF property.type # "Sint64Array"
    THEN [threw |-> TRUE, fault |-> "none", data |-> <<>>]
    ELSE LET start == FindLineItemDataStartIndex(property.values, lineNumber,
                                                 groupCountWithLineNumber)
         IN  IF start = kSizeMax
             THEN IF ub = "crash"
                  THEN [threw |-> FALSE, fault |-> "undefined", data |-> <<>>]
                  ELSE [threw |-> TRUE, fault |-> "none", data |-> <<>>]
             ELSE [threw |-> FALSE, fault |-> "none",
                   data |-> CopyLineItemData(property.values, start + 1,
                                             groupCountWithLineNumber)]

kInt32Max == 2147483647
kInt32Min == -kInt32Max - 1

\* the 23 fraction bits of a / d for d <= a < 2 d, by long division:
\* [m, rem] with a / d = 1 + (m + rem / d) / 2^23
RECURSIVE FractionBits(_, _, _, _)
FractionBits(rem, d, m, n) ==
    IF n = 0 THEN [m |-> m, rem |-> rem]
    ELSE IF 2 * rem >= d THEN FractionBits(2 * rem - d, d, 2 * m + 1, n - 1)
    ELSE FractionBits(2 * rem, d, 2 * m, n - 1)

\* the largest k with d * 2^k <= a, for a >= d
RECURSIVE ExponentUp(_, _)
ExponentUp(a, d) == IF 2 * d <= a THEN 1 + ExponentUp(a, 2 * d) ELSE 0

\* the smallest k with a * 2^k >= d, for a < d
RECURSIVE ExponentDown(_, _)
ExponentDown(a, d) == IF a >= d THEN 0 ELSE 1 + ExponentDown(2 * a, d)

\* static_cast<float>(double(numerator) / double(denominator)), numerator
\* not 0, rounded to nearest, ties to even
FloatOfRatio(numerator, denominator) ==
    LET a == IF numerator < 0 THEN -numerator ELSE numerator
        up == IF a >= denominator THEN ExponentUp(a, denominator) ELSE 0
        down == IF a >= denominator THEN 0 ELSE ExponentDown(a, denominator)
        A == a * Pow2(down)
        D == denominator * Pow2(up)
        q == FractionBits(A - D, D, 0, 23)
        roundUp == 2 * q.rem > D \/ (2 * q.rem = D /\ q.m % 2 = 1)
        m == IF roundUp THEN q.m + 1 ELSE q.m
        e == 127 + up - down
    IN  IF m = 8388608 THEN MkFloat(IF numerator < 0 THEN 1 ELSE 0, e + 1, 0)
        ELSE MkFloat(IF numerator < 0 THEN 1 ELSE 0, e, m)

\* Rational64ToFloat: [threw, value]
Rational64ToFloat(numerator, denominator) ==
    IF numerator < kInt32Min \/ numerator > kInt32Max
    THEN [threw |-> TRUE, value |-> FZero]
    ELSE IF denominator <= 0 \/ denominator > kInt32Max
    THEN [threw |-> TRUE, value |-> FZero]
    ELSE IF numerator = 0 THEN [threw |-> FALSE, value |-> FZero]
    ELSE [threw |-> FALSE, value |-> FloatOfRatio(numerator, denominator)]

kTourismGroupCount == 4

\* what lineItemData[0..2] yield when the vector holds fewer than three
\* elements, where the build goes on with what the memory held: values the
\* exemplar did not declare
GarbageLineItemData == <<0, 1, 0>>

\* TransactionAlgorithmFactory::Create(pPropertyHolder, type, lineNumber,
\* isIncome).  Reading lineItemData[0..2] of a vector that holds fewer
\* elements is undefined behaviour.
CreateFromHolder(holder, type, lineNumber, isIncome, ub) ==
    IF type = ResidentialTotalPopulation
    THEN LET factor == GetFloatValue(IF isIncome THEN holder.rtpIncome
                                     ELSE holder.rtpExpense)
         IN  IF ~factor.ok THEN Threw
             ELSE Made(ResidentialTotalPopulationAlgorithm(factor.value))
    ELSE IF type = ResidentialWealthGroupPopulation
    THEN LET values == GetFloatVector(IF isIncome THEN holder.rwgIncome
                                      ELSE holder.rwgExpense)
         IN  IF ~values.ok THEN Threw
             ELSE IF Len(values.values) # 3 THEN Threw
             ELSE Made(ResidentialWealthGroupPopulationAlgorithm(
                           values.values[1], values.values[2], values.values[3]))
    ELSE IF type = Tourism
    THEN LET lineItemData == GetLineItemData(holder.tourism, lineNumber,
                                             kTourismGroupCount, ub)
             short == Len(lineItemData.data) < 3
             data == IF short THEN GarbageLineItemData ELSE lineItemData.data
             factor == Rational64ToFloat(data[1], data[2])
         IN  IF lineItemData.threw THEN Threw
             ELSE IF lineItemData.fault # "none" THEN Undefined
             ELSE IF short /\ ub = "crash" THEN Undefined
             ELSE IF short /\ ub = "throw" THEN Threw
             ELSE IF factor.threw THEN Threw
             ELSE Made(TourismAlgorithm(factor.value, data[3]))
    ELSE Made(NoAlgorithm)

(***************************************************************************)
(* The host's budget simulator (cISC4BudgetSimulator): department id ->    *)
(* [budgetGroup, lineItems], lineItems: line number -> cISC4LineItem.      *)
(* refuse names the departments and the (department, line) pairs whose     *)
(* creation the host refuses while one message is handled.                 *)
(***************************************************************************)
\* cISC4DepartmentBudget::CreateLineItem: a fresh expense line item
NewLineItem ==
    [secondaryInfoField |-> 0, income |-> 0, fullExpenses |-> 0,
     showSecondaryInfoField |-> FALSE, type |-> "Expense"]

HasLineItem(h, department, line) ==
    department \in DOMAIN h /\ line \in DOMAIN h[department].lineItems

SetLineItem(h, department, line, item) ==
    [h EXCEPT ![department].lineItems = MapPut(@, line, item)]

IsValidBudgetGroup(budgetGroup) ==
    budgetGroup \in {kBudgetGroupBusinessDeals, kBudgetGroupCityBeautification,
                     kBudgetGroupGovernmentBuildings, kBudgetGroupHealthAndEducation,
                     kBudgetGroupPublicSafety, kBudgetGroupTransportation,
                     kBudgetGroupUtilities}

\* a GetOrCreateBudgetDepartment that asks the host for a department of any
\* budget group
GetOrCreateBudgetDepartmentOfAnyGroup(h, info, refuse) ==
    IF info.department \in DOMAIN h THEN [host |-> h, ok |-> TRUE]
    ELSE IF info.department \notin refuse.departments
    THEN [host |-> MapPut(h, info.department,
                          [budgetGroup |-> info.budgetGroup,
                           lineItems |-> EmptyMap]),
          ok |-> TRUE]
    ELSE [host |-> h, ok |-> FALSE]

\* CustomBudgetDepartmentManager::GetOrCreateBudgetDepartment: [host, ok]
GetOrCreateBudgetDepartment(h, info, refuse) ==
    IF info.department \in DOMAIN h THEN [host |-> h, ok |-> TRUE]
    ELSE IF IsValidBudgetGroup(info.budgetGroup)
    THEN IF info.department \notin refuse.departments
         THEN [host |-> MapPut(h, info.department,
                               [budgetGroup |-> info.budgetGroup,
                                lineItems |-> EmptyMap]),
               ok |-> TRUE]
         ELSE [host |-> h, ok |-> FALSE]
    ELSE [host |-> h, ok |-> FALSE]

\* CustomBudgetDepartmentManager::GetOrCreateLineItem, for a department the
\* host has: [host, ok]
GetOrCreateLineItem(h, info, refuse) ==
    IF HasLineItem(h, info.department, info.lineNumber) THEN [host |-> h, ok |-> TRUE]
    ELSE IF <<info.department, info.lineNumber>> \notin refuse.lineItems
    THEN [host |-> SetLineItem(h, info.department, info.lineNumber,
                               [NewLineItem EXCEPT !.type =
                                   IF info.type = "Income" THEN "Income" ELSE @]),
          ok |-> TRUE]
    ELSE [host |-> h, ok |-> FALSE]

(***************************************************************************)
(* Registry operations of the manager.                                     *)
(***************************************************************************)
\* a CreateLineItemTransactionCore that registers a fixed-cost transaction
\* when the construction of the algorithm fails
CreateLineItemTransactionCoreDefaultingToFixed(holder, type, lineNumber, cost, isIncome, destination, ub) ==
    Bind(CreateFromHolder(holder, type, lineNumber, isIncome, ub), LAMBDA made :
      IF made.fault # "none"
      THEN [ok |-> FALSE, fault |-> made.fault, destination |-> destination]
      ELSE [ok |-> lineNumber \notin DOMAIN destination, fault |-> "none",
            destination |-> MapEmplace(destination, lineNumber,
                                MkTransaction(made.algorithm, cost, isIncome))])

\* CreateLineItemTransactionCore: [ok, fault, destination]
CreateLineItemTransactionCore(holder, type, lineNumber, cost, isIncome, destination, ub) ==
    Bind(CreateFromHolder(holder, type, lineNumber, isIncome, ub), LAMBDA made :
      IF made.fault # "none"
      THEN [ok |-> FALSE, fault |-> made.fault, destination |-> destination]
      ELSE IF made.threw
      THEN [ok |-> FALSE, fault |-> "none", destination |-> destination]
      ELSE [ok |-> lineNumber \notin DOMAIN destination, fault |-> "none",
            destination |-> MapEmplace(destination, lineNumber,
                                MkTransaction(made.algorithm, cost, isIncome))])

\* CreateLineItemTransaction
CreateLineItemTransaction(holder, lineNumber, cost, isIncome, destination, ub) ==
    Bind(GetUint32PairMap(holder.algorithm), LAMBDA lineItemTransactionAlgorithms :
      IF lineItemTransactionAlgorithms.ok
          /\ lineNumber \in DOMAIN lineItemTransactionAlgorithms.values
      THEN CreateLineItemTransactionCore(holder,
               lineItemTransactionAlgorithms.values[lineNumber][1],
               lineNumber, cost, isIncome, destination, ub)
      ELSE CreateLineItemTransactionCore(holder, Fixed, lineNumber, cost,
                                         isIncome, destination, ub))

\* CustomBudgetDepartmentManager::GetLineItemTransaction: is one registered
HasLineItemTransaction(reg, department, line) ==
    department \in DOMAIN reg /\ line \in DOMAIN reg[department]

\* the mutation of GetOrCreateLineItemTransaction that creates the
\* transaction from the building's data on every insertion, in the place of
\* the one registered for the line
GetOrCreateLineItemTransactionCreatingAnew(reg, holder, info, ub) ==
    Bind(IF info.department \in DOMAIN reg
         THEN MapErase(reg[info.department], info.lineNumber)
         ELSE EmptyMap, LAMBDA others :
    Bind(CreateLineItemTransaction(holder, info.lineNumber, info.cost,
             info.type = "Income", others, ub), LAMBDA c :
      IF c.ok
      THEN [found |-> TRUE, fault |-> "none",
            reg |-> MapPut(reg, info.department, c.destination)]
      ELSE [found |-> FALSE, fault |-> c.fault, reg |-> reg]))

\* CustomBudgetDepartmentManager::GetOrCreateLineItemTransaction:
\* [found, fault, reg]
GetOrCreateLineItemTransaction(reg, holder, info, ub) ==
    IF info.department \in DOMAIN reg
    THEN IF info.lineNumber \in DOMAIN reg[info.department]
         THEN [found |-> TRUE, fault |-> "none", reg |-> reg]
         ELSE Bind(CreateLineItemTransaction(holder, info.lineNumber, info.cost,
                       info.type = "Income", reg[info.department], ub), LAMBDA c :
                [found |-> c.ok, fault |-> c.fault,
                 reg |-> [reg EXCEPT ![info.department] = c.destination]])
    ELSE Bind(CreateLineItemTransaction(holder, info.lineNumber, info.cost,
                  info.type = "Income", EmptyMap, ub), LAMBDA c :
           IF c.ok
           THEN [found |-> TRUE, fault |-> "none",
                 reg |-> MapEmplace(reg, info.department, c.destination)]
           ELSE [found |-> FALSE, fault |-> c.fault, reg |-> reg])

\* the mutation of RemoveLineItemTransaction that removes nothing
RemoveLineItemTransactionRemovingNothing(reg, info) == reg

\* the mutation of RemoveLineItemTransaction that keeps the emptied
\* department entry
RemoveLineItemTransactionKeepingDepartment(reg, info) ==
    IF info.department \in DOMAIN reg
    THEN [reg EXCEPT ![info.department] = MapErase(@, info.lineNumber)]
    ELSE reg

\* the removal, had it erased nothing
RemoveLineItemTransactionErasingNothing(reg, info) == reg

\* CustomBudgetDepartmentManager::RemoveLineItemTransaction
RemoveLineItemTransaction(reg, info) ==
    IF info.department \in DOMAIN reg
    THEN IF info.lineNumber \in DOMAIN reg[info.department]
         THEN IF DOMAIN reg[info.department] = {info.lineNumber}
              THEN MapErase(reg, info.department)
              ELSE [reg EXCEPT ![info.department] = MapErase(@, info.lineNumber)]
         ELSE reg
    ELSE reg

(***************************************************************************)
(* The inputs of the model: the occupants the host inserts and removes,    *)
(* what the host application offers at city initialisation, the live       *)
(* population figures, and the registry streams a save file may hold.      *)
(***************************************************************************)
Departments == 1..MaxDept
Lines == 1..MaxLine

BlankHolder ==
    [purpose |-> NoProperty, department |-> NoProperty, line |-> NoProperty,
     cost |-> NoProperty, budgetGroup |-> NoProperty, nameKey |-> NoProperty,
     algorithm |-> NoProperty, rtpExpense |-> NoProperty, rtpIncome |-> NoProperty,
     rwgExpense |-> NoProperty, rwgIncome |-> NoProperty, tourism |-> NoProperty]

\* an exemplar that declares one budget item
OneItem(purposeId, department, line, cost, budgetGroup) ==
    [BlankHolder EXCEPT
        !.purpose = Uint32Array(<<purposeId>>),
        !.department = Uint32Array(<<department>>),
        !.line = Uint32Array(<<line>>),
        !.cost = Sint64Array(<<cost>>),
        !.budgetGroup = Uint32Array(<<department, budgetGroup>>),
        !.nameKey = Uint32Array(<<department, 100, department>>)]

Building(holder) == [type |-> kOccupantType_Building, holder |-> holder]

FHalf == MkFloat(0, 126, 0)
\* -0.5f and 0.0625f
FMinusHalf == MkFloat(1, 126, 0)
FSixteenth == MkFloat(0, 123, 0)

\* the occupants, by name
OccupantNames ==
    {<<"fixed", d, 1>> : d \in Departments} \cup {<<"fixed", 1, l>> : l \in Lines}
      \cup {<<"income", 1, 1>>, <<"malformed", 1, 1>>, <<"tourism", 1, 2>>,
            <<"nogroup", 2, 1>>, <<"prop", 0, 0>>}
      \cup {<<"unlisted", 1, 1>>, <<"second", 1, 2>>, <<"zerogeo", 1, 2>>,
            <<"unknowntype", 1, 1>>, <<"mixed", 1, 1>>, <<"wealth", 2, 1>>,
            <<"sideline", 1, 1>>, <<"foreign", 1, 1>>, <<"nopurpose", 1, 1>>,
            <<"ragged", 1, 1>>, <<"lopsided", 1, 1>>}

\* an algorithm type value that is none of the four of the enum
UnknownType == 7

\* a purpose id that is neither of the two custom purpose ids
ForeignPurposeId == 5
\* a department id that the tables of no exemplar list
UnlistedDepartment == 9

Occupant(name) ==
    IF name[1] = "fixed"
    THEN Building(OneItem(kCustomBudgetDepartmentExpensePurposeId, name[2], name[3],
                          10, kBudgetGroupUtilities))
    ELSE IF name[1] = "income"
    THEN Building([OneItem(kCustomBudgetDepartmentIncomePurposeId, 1, 1, 5,
                           kBudgetGroupBusinessDeals) EXCEPT
                      !.algorithm = Uint32Array(<<1, ResidentialTotalPopulation>>),
                      !.rtpIncome = Float32(FHalf)])
    ELSE IF name[1] = "malformed"
    THEN Building([OneItem(kCustomBudgetDepartmentExpensePurposeId, 1, 1, 10,
                           kBudgetGroupUtilities) EXCEPT
                      !.algorithm = Uint32Array(<<1, Tourism>>)])
    ELSE IF name[1] = "tourism"
    THEN Building([OneItem(kCustomBudgetDepartmentExpensePurposeId, 1, 2, 7,
                           kBudgetGroupUtilities) EXCEPT
                      !.algorithm = Uint32Array(<<2, Tourism>>),
                      !.tourism = Sint64Array(<<2, 1, 2, 2>>)])
    ELSE IF name[1] = "nogroup"
    THEN Building(OneItem(kCustomBudgetDepartmentExpensePurposeId, 2, 1, 10, 0))
    ELSE IF name[1] = "unlisted"
    \* the Tourism table has no group for the line
    THEN Building([OneItem(kCustomBudgetDepartmentExpensePurposeId, 1, 1, 10,
                           kBudgetGroupUtilities) EXCEPT
                      !.algorithm = Uint32Array(<<1, Tourism>>),
                      !.tourism = Sint64Array(<<2, 1, 2, 2>>)])
    ELSE IF name[1] = "second"
    \* the group of the line is the second of the Tourism table
    THEN Building([OneItem(kCustomBudgetDepartmentExpensePurposeId, 1, 2, 7,
                           kBudgetGroupUtilities) EXCEPT
                      !.algorithm = Uint32Array(<<2, Tourism>>),
                      !.tourism = Sint64Array(<<1, 1, 2, 2, 2, 1, 2, 2>>)])
    ELSE IF name[1] = "zerogeo"
    \* the geopolitics factor of the line is 0
    THEN Building([OneItem(kCustomBudgetDepartmentExpensePurposeId, 1, 2, 7,
                           kBudgetGroupUtilities) EXCEPT
                      !.algorithm = Uint32Array(<<2, Tourism>>),
                      !.tourism = Sint64Array(<<2, 1, 2, 0>>)])
    ELSE IF name[1] = "unknowntype"
    THEN Building([OneItem(kCustomBudgetDepartmentExpensePurposeId, 1, 1, 10,
                           kBudgetGroupUtilities) EXCEPT
                      !.algorithm = Uint32Array(<<1, UnknownType>>)])
    ELSE IF name[1] = "wealth"
    THEN Building([OneItem(kCustomBudgetDepartmentExpensePurposeId, 2, 1, 9,
                           kBudgetGroupUtilities) EXCEPT
                      !.algorithm = Uint32Array(<<1, ResidentialWealthGroupPopulation>>),
                      !.rwgExpense = Float32Array(<<FMinusHalf, FSixteenth,
                                                    FSixteenth>>)])
    ELSE IF name[1] = "sideline"
    \* three entries: one of a purpose of the host's own, one expense of
    \* line 1 of department 1, one expense of a department that the tables
    \* do not list
    THEN Building([BlankHolder EXCEPT
                      !.purpose = Uint32Array(<<ForeignPurposeId,
                                                kCustomBudgetDepartmentExpensePurposeId,
                                                kCustomBudgetDepartmentExpensePurposeId>>),
                      !.department = Uint32Array(<<1, 1, UnlistedDepartment>>),
                      !.line = Uint32Array(<<2, 1, 1>>),
                      !.cost = Sint64Array(<<3, 10, 4>>),
                      !.budgetGroup = Uint32Array(<<1, kBudgetGroupUtilities>>),
                      !.nameKey = Uint32Array(<<1, 100, 1>>)])
    ELSE IF name[1] = "foreign"
    \* the one purpose is one of the host's own
    THEN Building(OneItem(ForeignPurposeId, 1, 1, 10, kBudgetGroupUtilities))
    ELSE IF name[1] = "nopurpose"
    \* the purpose array is empty
    THEN Building([OneItem(kCustomBudgetDepartmentExpensePurposeId, 1, 1, 10,
                           kBudgetGroupUtilities) EXCEPT
                      !.purpose = Uint32Array(<< >>)])
    ELSE IF name[1] = "ragged"
    \* two line numbers for one purpose, department and cost
    THEN Building([OneItem(kCustomBudgetDepartmentExpensePurposeId, 1, 1, 10,
                           kBudgetGroupUtilities) EXCEPT
                      !.line = Uint32Array(<<1, 2>>)])
    ELSE IF name[1] = "lopsided"
    \* two departments in the budget group table, one in the name key table
    THEN Building([OneItem(kCustomBudgetDepartmentExpensePurposeId, 1, 1, 10,
                           kBudgetGroupUtilities) EXCEPT
                      !.budgetGroup = Uint32Array(<<1, kBudgetGroupUtilities,
                                                    2, kBudgetGroupUtilities>>)])
    ELSE IF name[1] = "mixed"
    \* two records: line 2 of department 1 with a Tourism algorithm and no
    \* Tourism table, then line 1 of department 1 with a fixed cost
    THEN Building([BlankHolder EXCEPT
                      !.purpose = Uint32Array(<<kCustomBudgetDepartmentExpensePurposeId,
                                                kCustomBudgetDepartmentExpensePurposeId>>),
                      !.department = Uint32Array(<<1, 1>>),
                      !.line = Uint32Array(<<2, 1>>),
                      !.cost = Sint64Array(<<7, 10>>),
                      !.budgetGroup = Uint32Array(<<1, kBudgetGroupUtilities>>),
                      !.nameKey = Uint32Array(<<1, 100, 1>>),
                      !.algorithm = Uint32Array(<<2, Tourism>>)])
    ELSE [type |-> 0, holder |-> BlankHolder]

\* LoadCustomBudgetDepartmentInfo of each exemplar of the model
Exemplars == {Occupant(name).holder : name \in OccupantNames}

LoadedInfo == [holder \in Exemplars |-> LoadCustomBudgetDepartmentInfo(holder)]

\* what the host refuses to create while one message is handled
RefuseChoices ==
    { [departments |-> {}, lineItems |-> {}],
      [departments |-> Departments, lineItems |-> {}],
      [departments |-> {}, lineItems |-> Departments \X Lines] }

\* the region: the current city at (0, 0), an established neighbour and a
\* neighbour that is not established
RegionCities ==
    << [x |-> 0, z |-> 0, established |-> TRUE, population |-> 500,
        low |-> 300, medium |-> 150, high |-> 50],
       [x |-> 1, z |-> 0, established |-> TRUE, population |-> 303,
        low |-> 101, medium |-> 101, high |-> 101],
       [x |-> 0, z |-> 1, established |-> FALSE, population |-> 40,
        low |-> 20, medium |-> 10, high |-> 10] >>

AppOffer(regionalCity) ==
    [city |-> TRUE, regionalCity |-> regionalCity, residentialSimulator |-> TRUE,
     demandSimulator |-> TRUE, region |-> TRUE, x |-> 0, z |-> 0,
     cities |-> RegionCities]

\* a host with everything and one without a regional city
AppOffers == {AppOffer(TRUE), AppOffer(FALSE)}

\* the application when PopulationProvider::Init is not called
NoApp ==
    [city |-> FALSE, regionalCity |-> FALSE, residentialSimulator |-> FALSE,
     demandSimulator |-> FALSE, region |-> FALSE, x |-> 0, z |-> 0, cities |-> <<>>]

\* the live figures of the city's simulators
CityFigures ==
    { [population |-> 0,
       supply |-> [id \in {kLowWealthDemandId, kMediumWealthDemandId,
                           kHighWealthDemandId} |-> 0]],
      [population |-> 1000,
       supply |-> (kLowWealthDemandId :> 101 @@ kMediumWealthDemandId :> 200
                     @@ kHighWealthDemandId :> 300)] }

\* a registry a save file may hold
StoredRegistry ==
    1 :> (1 :> MkTransaction(NoAlgorithm, 12, FALSE)
            @@ 2 :> MkTransaction(TourismAlgorithm(FHalf, 2), 7, FALSE))

NoStream == [present |-> FALSE, bytes |-> <<>>]
Stream(bytes) == [present |-> TRUE, bytes |-> bytes]

\* bytes with the byte at (1-based) position p replaced by b
Patch(bytes, p, b) == [bytes EXCEPT ![p] = b]

StoredBytes == WriteToDBSegment(StoredRegistry, TRUE)

\* the registry streams of the save files of the host: a sound one and
\* damaged ones
SoundStream == Stream(StoredBytes)
\* the leading version field is 2
RegistryVersion2Stream == Stream(Patch(StoredBytes, 1, 2))
\* the version of the last transaction record is 2
LastTransactionVersion2Stream == Stream(Patch(StoredBytes, 42, 2))
\* the algorithm type of the last transaction record is 7
UnknownAlgorithmStream == Stream(Patch(StoredBytes, 55, 7))
\* the version of the first transaction record is 2
FirstTransactionVersion2Stream == Stream(Patch(StoredBytes, 21, 2))
\* the geopolitics factor of the Tourism algorithm of the last record is 0
ZeroGeopoliticsStream == Stream(Patch(StoredBytes, 63, 0))
\* one department record, of department 1, that declares no line items
ZeroLineStream ==
    Stream(U32Bytes(kRegistryVersion) \o U32Bytes(1) \o U32Bytes(1) \o U32Bytes(0))

\* the stream of a registry of one ResidentialTotalPopulation transaction
\* that ends after the algorithm type of the transaction: the factor is
\* missing
TruncatedFactorStream ==
    LET bytes == WriteToDBSegment(
                     1 :> (1 :> MkTransaction(ResidentialTotalPopulationAlgorithm(FHalf),
                                              5, TRUE)), TRUE)
    IN  Stream(SubSeq(bytes, 1, Len(bytes) - 4))

\* the streams with a version field other than 1
CorruptStreams ==
    {RegistryVersion2Stream, LastTransactionVersion2Stream,
     FirstTransactionVersion2Stream}

InitialSegments ==
    {NoStream, SoundStream, UnknownAlgorithmStream, ZeroLineStream,
     ZeroGeopoliticsStream, TruncatedFactorStream}
      \cup CorruptStreams

\* the segment a load or save message hands over: the one of the message
\* before, or the one of another save file
HostSegments(current) == InitialSegments \cup {current}

\* the host budget of a city saved with one building on each of the lines 1
\* and 2 of department 1 and no registry stream: the line items have no
\* registered transaction
LegacyBudget ==
    1 :> [budgetGroup |-> kBudgetGroupUtilities,
          lineItems |-> 1 :> [NewLineItem EXCEPT !.secondaryInfoField = 1,
                                                 !.fullExpenses = 10]
                          @@ 2 :> [NewLineItem EXCEPT !.secondaryInfoField = 1,
                                                      !.fullExpenses = 7]]

\* the host budget of a city saved with two buildings on line 1 of
\* department 1 and no registry stream: the count is shown
LegacyBudgetOfTwo ==
    1 :> [budgetGroup |-> kBudgetGroupUtilities,
          lineItems |-> 1 :> [NewLineItem EXCEPT !.secondaryInfoField = 2,
                                                 !.fullExpenses = 20,
                                                 !.showSecondaryInfoField = TRUE]]

(***************************************************************************)
(* The message handlers, as functions of the manager's registry and the    *)
(* host's budget: st is [reg, host, fault], fault other than "none" once   *)
(* the handler has run into undefined behaviour or a trap.                 *)
(***************************************************************************)
\* the body of the loop of InsertOccupant, for one info record
InsertItem(st, holder, item, refuse, pp, city, ub) ==
    Bind(GetOrCreateLineItemTransaction(st.reg, holder, item, ub), LAMBDA t :
      IF t.fault # "none" THEN [st EXCEPT !.fault = t.fault]
      ELSE IF ~t.found THEN [st EXCEPT !.reg = t.reg]
      ELSE
    Bind(GetOrCreateBudgetDepartment(st.host, item, refuse), LAMBDA d :
      IF ~d.ok THEN [st EXCEPT !.reg = RemoveLineItemTransaction(t.reg, item)]
      ELSE
    Bind(GetOrCreateLineItem(d.host, item, refuse), LAMBDA l :
      IF ~l.ok
      THEN [reg |-> RemoveLineItemTransaction(t.reg, item), host |-> d.host,
            fault |-> "none"]
      ELSE
    Bind(l.host[item.department].lineItems[item.lineNumber], LAMBDA lineItem :
    Bind(CalculateLineItemTotal(t.reg[item.department][item.lineNumber],
                                lineItem.secondaryInfoField + 1, pp, city),
         LAMBDA total :
      LET buildingCount == lineItem.secondaryInfoField + 1
          counted == [lineItem EXCEPT !.secondaryInfoField = buildingCount]
          paid == IF item.type = "Expense"
                  THEN [counted EXCEPT !.fullExpenses = total.v]
                  ELSE [counted EXCEPT !.income = total.v]
          shown == IF buildingCount > 1
                   THEN [paid EXCEPT !.showSecondaryInfoField = TRUE]
                   ELSE paid
      IN  IF total.fault # "none"
          THEN [reg |-> t.reg,
                host |-> SetLineItem(l.host, item.department, item.lineNumber,
                                     counted),
                fault |-> total.fault]
          ELSE [reg |-> t.reg,
                host |-> SetLineItem(l.host, item.department, item.lineNumber,
                                     shown),
                fault |-> "none"])))))

RECURSIVE InsertItems(_, _, _, _, _, _, _, _)
InsertItems(st, holder, items, i, refuse, pp, city, ub) ==
    IF i > Len(items) \/ st.fault # "none" THEN st
    ELSE Bind(InsertItem(st, holder, items[i], refuse, pp, city, ub), LAMBDA next :
           InsertItems(next, holder, items, i + 1, refuse, pp, city, ub))

\* CustomBudgetDepartmentManager::InsertOccupant
InsertOccupant(st, active, occupant, refuse, pp, city, ub) ==
    IF occupant.type = kOccupantType_Building /\ active
    THEN Bind(LoadedInfo[occupant.holder], LAMBDA items :
           InsertItems(st, occupant.holder, items, 1, refuse, pp, city, ub))
    ELSE st

\* the body of the loop, had it left the totals of a line without a
\* registered transaction as they were
RemoveItemKeepingLegacyTotal(st, item, pp, city) ==
    IF ~HasLineItem(st.host, item.department, item.lineNumber) THEN st
    ELSE
    Bind(st.host[item.department].lineItems[item.lineNumber], LAMBDA lineItem :
    Bind(HasLineItemTransaction(st.reg, item.department, item.lineNumber),
         LAMBDA registered :
    Bind(IF registered
         THEN CalculateLineItemTotal(st.reg[item.department][item.lineNumber],
                                     lineItem.secondaryInfoField - 1, pp, city)
         ELSE [v |-> 0, fault |-> "none"], LAMBDA total :
      LET buildingCount == lineItem.secondaryInfoField
          paid == IF item.type = "Expense"
                  THEN [lineItem EXCEPT !.fullExpenses =
                           IF registered THEN total.v ELSE @]
                  ELSE [lineItem EXCEPT !.income =
                           IF registered THEN total.v ELSE @]
          counted == [paid EXCEPT !.secondaryInfoField = buildingCount - 1]
          shown == IF buildingCount - 1 = 1
                   THEN [counted EXCEPT !.showSecondaryInfoField = FALSE]
                   ELSE counted
      IN  IF total.fault # "none" THEN [st EXCEPT !.fault = total.fault]
          ELSE IF buildingCount > 1
          THEN [st EXCEPT !.host = SetLineItem(st.host, item.department,
                                               item.lineNumber, shown)]
          ELSE [reg |-> IF registered THEN RemoveLineItemTransaction(st.reg, item)
                        ELSE st.reg,
                host |-> [st.host EXCEPT ![item.department].lineItems =
                             MapErase(@, item.lineNumber)],
                fault |-> "none"])))

\* the body of the loop, had it turned the count display off at every
\* decrement
RemoveItemHidingCount(st, item, pp, city) ==
    IF ~HasLineItem(st.host, item.department, item.lineNumber) THEN st
    ELSE
    Bind(st.host[item.department].lineItems[item.lineNumber], LAMBDA lineItem :
    Bind(HasLineItemTransaction(st.reg, item.department, item.lineNumber),
         LAMBDA registered :
    Bind(IF registered
         THEN CalculateLineItemTotal(st.reg[item.department][item.lineNumber],
                                     lineItem.secondaryInfoField - 1, pp, city)
         ELSE [v |-> 0, fault |-> "none"], LAMBDA total :
      LET buildingCount == lineItem.secondaryInfoField
          paid == IF item.type = "Expense"
                  THEN [lineItem EXCEPT !.fullExpenses =
                           IF registered THEN total.v ELSE @ - item.cost]
                  ELSE [lineItem EXCEPT !.income =
                           IF registered THEN total.v ELSE @ - item.cost]
          counted == [paid EXCEPT !.secondaryInfoField = buildingCount - 1]
          shown == [counted EXCEPT !.showSecondaryInfoField = FALSE]
      IN  IF total.fault # "none" THEN [st EXCEPT !.fault = total.fault]
          ELSE IF buildingCount > 1
          THEN [st EXCEPT !.host = SetLineItem(st.host, item.department,
                                               item.lineNumber, shown)]
          ELSE [reg |-> IF registered THEN RemoveLineItemTransaction(st.reg, item)
                        ELSE st.reg,
                host |-> [st.host EXCEPT ![item.department].lineItems =
                             MapErase(@, item.lineNumber)],
                fault |-> "none"])))

\* the body of the loop of RemoveOccupant, for one info record
RemoveItem(st, item, pp, city) ==
    IF ~HasLineItem(st.host, item.department, item.lineNumber) THEN st
    ELSE
    Bind(st.host[item.department].lineItems[item.lineNumber], LAMBDA lineItem :
    Bind(HasLineItemTransaction(st.reg, item.department, item.lineNumber),
         LAMBDA registered :
    Bind(IF registered
         THEN CalculateLineItemTotal(st.reg[item.department][item.lineNumber],
                                     lineItem.secondaryInfoField - 1, pp, city)
         ELSE [v |-> 0, fault |-> "none"], LAMBDA total :
      LET buildingCount == lineItem.secondaryInfoField
          paid == IF item.type = "Expense"
                  THEN [lineItem EXCEPT !.fullExpenses =
                           IF registered THEN total.v ELSE @ - item.cost]
                  ELSE [lineItem EXCEPT !.income =
                           IF registered THEN total.v ELSE @ - item.cost]
          counted == [paid EXCEPT !.secondaryInfoField = buildingCount - 1]
          shown == IF buildingCount - 1 = 1
                   THEN [counted EXCEPT !.showSecondaryInfoField = FALSE]
                   ELSE counted
      IN  IF total.fault # "none" THEN [st EXCEPT !.fault = total.fault]
          ELSE IF buildingCount > 1
          THEN [st EXCEPT !.host = SetLineItem(st.host, item.department,
                                               item.lineNumber, shown)]
          ELSE [reg |-> IF registered THEN RemoveLineItemTransaction(st.reg, item)
                        ELSE st.reg,
                host |-> [st.host EXCEPT ![item.department].lineItems =
                             MapErase(@, item.lineNumber)],
                fault |-> "none"])))

RECURSIVE RemoveItems(_, _, _, _, _)
RemoveItems(st, items, i, pp, city) ==
    IF i > Len(items) \/ st.fault # "none" THEN st
    ELSE Bind(RemoveItem(st, items[i], pp, city), LAMBDA next :
           RemoveItems(next, items, i + 1, pp, city))

\* CustomBudgetDepartmentManager::RemoveOccupant
RemoveOccupant(st, active, occupant, pp, city) ==
    IF occupant.type = kOccupantType_Building /\ active
    THEN Bind(LoadedInfo[occupant.holder], LAMBDA items :
           RemoveItems(st, items, 1, pp, city))
    ELSE st

\* a recalculation of a line that does not skip fixed-cost transactions
MonthLineItemOfEveryTransaction(reg, department, line, lineItem, pp, city) ==
    IF HasLineItemTransaction(reg, department, line)
    THEN Bind(CalculateLineItemTotal(reg[department][line],
                  lineItem.secondaryInfoField, pp, city), LAMBDA newTotal :
           IF newTotal.fault # "none" THEN lineItem
           ELSE IF IsIncome(reg[department][line])
           THEN [lineItem EXCEPT !.income = newTotal.v]
           ELSE [lineItem EXCEPT !.fullExpenses = newTotal.v])
    ELSE lineItem

\* the update SimNewMonth makes to one host line item
MonthLineItem(reg, department, line, lineItem, pp, city) ==
    IF HasLineItemTransaction(reg, department, line)
         /\ ~IsFixedCost(reg[department][line])
    THEN Bind(CalculateLineItemTotal(reg[department][line],
                  lineItem.secondaryInfoField, pp, city), LAMBDA newTotal :
           IF newTotal.fault # "none" THEN lineItem
           ELSE IF IsIncome(reg[department][line])
           THEN [lineItem EXCEPT !.income = newTotal.v]
           ELSE [lineItem EXCEPT !.fullExpenses = newTotal.v])
    ELSE lineItem

\* does SimNewMonth run into a trap while it recomputes a line
MonthFaults(reg, h, pp, city) ==
    \E department \in DOMAIN reg \cap DOMAIN h :
      \E line \in DOMAIN reg[department] \cap DOMAIN h[department].lineItems :
        /\ ~IsFixedCost(reg[department][line])
        /\ CalculateLineItemTotal(reg[department][line],
               h[department].lineItems[line].secondaryInfoField, pp, city).fault
             # "none"

\* CustomBudgetDepartmentManager::SimNewMonth.  pBudgetSim is dereferenced
\* for every department of the registry that has a line, whether or not a
\* budget simulator is held.
SimNewMonth(st, active, pp, city) ==
    IF \E department \in DOMAIN st.reg : st.reg[department] # EmptyMap
    THEN IF ~active THEN [st EXCEPT !.fault = "nullptr"]
         ELSE [reg |-> st.reg,
               host |-> [department \in DOMAIN st.host |->
                           [st.host[department] EXCEPT !.lineItems =
                              [line \in DOMAIN @ |->
                                 MonthLineItem(st.reg, department, line, @[line],
                                               pp, city)]]],
               fault |-> IF MonthFaults(st.reg, st.host, pp, city)
                         THEN "divide" ELSE "none"]
    ELSE st

(***************************************************************************)
(* PopulationProvider::Init / Shutdown.  app is what the host application  *)
(* offers when Init runs: [city, regionalCity, residentialSimulator,       *)
(* demandSimulator, region, x, z, cities].                                 *)
(***************************************************************************)
\* PopulationProvider::PopulationProvider()
NewPopulationProvider ==
    [initialized |-> FALSE, pResidentialSimulator |-> FALSE,
     pDemandSimulator |-> FALSE, regionResidentialPopulation |-> 0,
     regionResidentialLowWealthPopulation |-> 0,
     regionResidentialMediumWealthPopulation |-> 0,
     regionResidentialHighWealthPopulation |-> 0]

RECURSIVE SumOver(_, _, _)
SumOver(cities, i, field) ==
    IF i > Len(cities) THEN 0 ELSE cities[i][field] + SumOver(cities, i + 1, field)

\* the cities CalculateRegionalPopulation adds up
CountedCities(cities, currentCityX, currentCityZ) ==
    SelectSeq(cities, LAMBDA c : ~(c.x = currentCityX /\ c.z = currentCityZ)
                                   /\ c.established)

\* PopulationProvider::CalculateRegionalPopulation: [result, pp]
CalculateRegionalPopulation(pp, app, currentCityX, currentCityZ) ==
    LET counted == CountedCities(app.cities, currentCityX, currentCityZ)
    IN  IF app.region
        THEN [result |-> TRUE,
              pp |-> [pp EXCEPT
                  !.regionResidentialPopulation = SumOver(counted, 1, "population"),
                  !.regionResidentialLowWealthPopulation = SumOver(counted, 1, "low"),
                  !.regionResidentialMediumWealthPopulation =
                      SumOver(counted, 1, "medium"),
                  !.regionResidentialHighWealthPopulation = SumOver(counted, 1, "high")]]
        ELSE [result |-> FALSE,
              pp |-> [pp EXCEPT
                  !.regionResidentialPopulation = 0,
                  !.regionResidentialLowWealthPopulation = 0,
                  !.regionResidentialMediumWealthPopulation = 0,
                  !.regionResidentialHighWealthPopulation = 0]]

\* PopulationProvider::Init: [result, pp]
PopulationProviderInit(pp, app) ==
    IF pp.initialized THEN [result |-> TRUE, pp |-> pp]
    ELSE LET armed == [pp EXCEPT !.initialized = TRUE]
             captured == [armed EXCEPT
                            !.pResidentialSimulator = app.residentialSimulator,
                            !.pDemandSimulator = app.demandSimulator]
         IN  IF app.city /\ app.regionalCity
             THEN IF app.residentialSimulator /\ app.demandSimulator
                  THEN CalculateRegionalPopulation(captured, app, app.x, app.z)
                  ELSE [result |-> FALSE, pp |-> captured]
             ELSE [result |-> FALSE, pp |-> armed]

\* PopulationProvider::Shutdown
PopulationProviderShutdown(pp) ==
    [pp EXCEPT !.pResidentialSimulator = FALSE, !.pDemandSimulator = FALSE,
               !.initialized = FALSE]

(***************************************************************************)
(* The state machine: the manager, the host objects it works on, and a     *)
(* record of the message handled last.                                     *)
(***************************************************************************)
VARIABLES
    pBudgetSim,               \* TRUE when the manager holds a budget simulator
    customBudgetDepartments,  \* the registry
    populationProvider,       \* the PopulationProvider member
    budget,                   \* the departments and line items of the host
    city,                     \* the live population figures of the host
    segment,                  \* the registry stream of the segment handed over last
    fault,                    \* "none", or how the process went down
    events,                   \* the number of messages handled
    last                      \* the message handled last and the state before it

vars == <<pBudgetSim, customBudgetDepartments, populationProvider, budget, city,
          segment, fault, events, last>>

NoOccupant == <<"none", 0, 0>>

\* no call of PopulationProvider::Init
NoCall == [called |-> FALSE, app |-> NoApp, result |-> FALSE]

\* the record of a handled message: its kind, the occupant it names, whether
\* the manager held a budget simulator, for an insertion or a removal
\* handled with a budget simulator the host budget before the message, and
\* for a city initialisation the call of PopulationProvider::Init it made
Handled(event, occupant) ==
    [event |-> event, occupant |-> occupant, active |-> pBudgetSim,
     before |-> IF event \in {"insert", "remove"} /\ pBudgetSim
                THEN budget ELSE EmptyMap,
     init |-> NoCall]

Init ==
    /\ pBudgetSim = FALSE
    /\ customBudgetDepartments = EmptyMap
    /\ populationProvider = NewPopulationProvider
    /\ budget \in {EmptyMap, LegacyBudget, LegacyBudgetOfTwo}
    /\ segment = NoStream
    /\ city \in {c \in CityFigures : c.population = 0}
    /\ fault = "none"
    /\ events = 0
    /\ last = [event |-> "none", occupant |-> NoOccupant, active |-> FALSE,
               before |-> EmptyMap, init |-> NoCall]

Running == fault = "none" /\ events < MaxEvents

\* kSC4MessagePostCityInit -> CustomBudgetDepartmentManager::PostCityInit
MessagePostCityInit ==
    /\ Running
    /\ \/ /\ pBudgetSim' = FALSE
          /\ populationProvider' = populationProvider
          /\ last' = Handled("init", NoOccupant)
       \/ \E app \in AppOffers :
            \E r \in {PopulationProviderInit(populationProvider, app)} :
               /\ pBudgetSim' = TRUE
               /\ populationProvider' = r.pp
               /\ last' = [Handled("init", NoOccupant) EXCEPT
                              !.init = [called |-> TRUE, app |-> app,
                                        result |-> r.result]]
    /\ events' = events + 1
    /\ UNCHANGED <<customBudgetDepartments, budget, city, segment, fault>>

\* a PostCityShutdown that does not clear the registry
MessagePostCityShutdownKeepingRegistry ==
    /\ Running
    /\ pBudgetSim' = FALSE
    /\ populationProvider' = PopulationProviderShutdown(populationProvider)
    /\ last' = Handled("shutdown", NoOccupant)
    /\ events' = events + 1
    /\ UNCHANGED <<customBudgetDepartments, budget, city, segment, fault>>

\* kSC4MessagePostCityShutdown -> PostCityShutdown
MessagePostCityShutdown ==
    /\ Running
    /\ pBudgetSim' = FALSE
    /\ populationProvider' = PopulationProviderShutdown(populationProvider)
    /\ customBudgetDepartments' = EmptyMap
    /\ last' = Handled("shutdown", NoOccupant)
    /\ events' = events + 1
    /\ UNCHANGED <<budget, city, segment, fault>>

\* kSC4MessageInsertOccupant -> InsertOccupant
MessageInsertOccupant ==
    /\ Running
    /\ \E name \in OccupantNames :
         \E st \in {InsertOccupant([reg |-> customBudgetDepartments,
                                     host |-> budget, fault |-> "none"],
                                    pBudgetSim, Occupant(name), refuse,
                                    populationProvider, city, ub) :
                       refuse \in RefuseChoices, ub \in UndefinedOutcomes} :
             /\ customBudgetDepartments' = st.reg
             /\ budget' = st.host
             /\ fault' = st.fault
             /\ last' = Handled("insert", name)
    /\ events' = events + 1
    /\ UNCHANGED <<pBudgetSim, populationProvider, city, segment>>

\* kSC4MessageRemoveOccupant -> RemoveOccupant
MessageRemoveOccupant ==
    /\ Running
    /\ \E name \in OccupantNames :
         \E st \in {RemoveOccupant([reg |-> customBudgetDepartments,
                                     host |-> budget, fault |-> "none"],
                                    pBudgetSim, Occupant(name),
                                    populationProvider, city)} :
             /\ customBudgetDepartments' = st.reg
             /\ budget' = st.host
             /\ fault' = st.fault
             /\ last' = Handled("remove", name)
    /\ events' = events + 1
    /\ UNCHANGED <<pBudgetSim, populationProvider, city, segment>>

\* kSC4MessageSimNewMonth -> SimNewMonth
MessageSimNewMonth ==
    /\ Running
    /\ \E st \in {SimNewMonth([reg |-> customBudgetDepartments, host |-> budget,
                                fault |-> "none"],
                               pBudgetSim, populationProvider, city)} :
           /\ customBudgetDepartments' = st.reg
           /\ budget' = st.host
           /\ fault' = st.fault
    /\ last' = Handled("month", NoOccupant)
    /\ events' = events + 1
    /\ UNCHANGED <<pBudgetSim, populationProvider, city, segment>>

\* kSC4MessageLoad -> Load, of the segment the message hands over: an
\* exception ReadFromDBSegment lets out leaves DoMessage and reaches the host
MessageLoad ==
    /\ Running
    /\ \E pSegment \in HostSegments(segment) :
         \E r \in {IF pSegment.present
                   THEN ReadFromDBSegment(customBudgetDepartments, pSegment.bytes)
                   ELSE [reg |-> customBudgetDepartments, threw |-> FALSE]} :
             /\ segment' = pSegment
             /\ customBudgetDepartments' = r.reg
             /\ fault' = IF r.threw THEN "exception" ELSE "none"
    /\ last' = Handled("load", NoOccupant)
    /\ events' = events + 1
    /\ UNCHANGED <<pBudgetSim, populationProvider, budget, city>>

\* kSC4MessageSave -> Save, to the segment the message hands over
MessageSave ==
    /\ Running
    /\ \E written \in
           {IF customBudgetDepartments # EmptyMap
            THEN Stream(WriteToDBSegment(customBudgetDepartments, ascending))
            ELSE pSegment :
              pSegment \in HostSegments(segment), ascending \in BOOLEAN} :
         segment' = written
    /\ last' = Handled("save", NoOccupant)
    /\ events' = events + 1
    /\ UNCHANGED <<pBudgetSim, customBudgetDepartments, populationProvider, budget,
                   city, fault>>

\* the simulators of a loaded city change its figures between two messages
HostPopulationChange ==
    /\ Running
    /\ pBudgetSim
    /\ \E figures \in CityFigures \ {city} : city' = figures
    /\ last' = Handled("figures", NoOccupant)
    /\ events' = events + 1
    /\ UNCHANGED <<pBudgetSim, customBudgetDepartments, populationProvider, budget,
                   segment, fault>>

Next ==
    \/ MessagePostCityInit
    \/ MessagePostCityShutdown
    \/ MessageInsertOccupant
    \/ MessageRemoveOccupant
    \/ MessageSimNewMonth
    \/ MessageLoad
    \/ MessageSave
    \/ HostPopulationChange

Spec == Init /\ [][Next]_vars

(***************************************************************************)
(* What the claims compare.                                                *)
(***************************************************************************)
\* the existence, totals and building counter of every line item of a host
\* budget
LineItemFigures(h) ==
    UNION { { <<d, l, h[d].lineItems[l].income, h[d].lineItems[l].fullExpenses,
                h[d].lineItems[l].secondaryInfoField>> :
              l \in DOMAIN h[d].lineItems } : d \in DOMAIN h }

\* the info records the handlers work through for each occupant
OccupantRecords ==
    [name \in OccupantNames |->
        IF Occupant(name).type = kOccupantType_Building
        THEN LoadCustomBudgetDepartmentInfo(Occupant(name).holder)
        ELSE <<>>]

RecordsOf(name) == OccupantRecords[name]

\* the leading version field of a stream
LeadingVersion(s) == GetUint32(s.bytes, 1, 0)

\* the registry and the host budget a handler starts from
HandlerState ==
    [reg |-> customBudgetDepartments, host |-> budget, fault |-> "none"]

\* C1: with a budget simulator held, a building-inserted message and the
\* building-removed message that follows it at once for the same building
\* leave the existence, income, expenses and building counter of every host
\* line item as they were before the insertion.
C1_InsertThenRemoveRestoresLineItems ==
    [][(/\ last.event = "insert" /\ last.active
        /\ last'.event = "remove" /\ last'.occupant = last.occupant
        /\ fault' = "none")
       => LineItemFigures(budget') = LineItemFigures(last.before)]_vars

\* C2: no department of the registry maps to an empty line map, in any
\* reachable state.
C2_NoDepartmentWithoutLines ==
    \A d \in DOMAIN customBudgetDepartments :
        DOMAIN customBudgetDepartments[d] # {}

\* C3: when an insertion got a transaction for a record but the host gave no
\* department or no line item for it, then after the handler the registry
\* has no transaction for the record's department and line, the department
\* entry is gone if that line was its only one, and the host has no line
\* item for the record, as before; the figures of the host's line items are
\* as before when the record is the building's only one.
C3_HostRefusalRollsBack ==
    [][(last'.event = "insert" /\ last'.active /\ fault' = "none") =>
         \A i \in DOMAIN RecordsOf(last'.occupant) :
            LET item == RecordsOf(last'.occupant)[i]
                t == GetOrCreateLineItemTransaction(customBudgetDepartments,
                         Occupant(last'.occupant).holder, item, "throw")
            IN  (~HasLineItem(budget', item.department, item.lineNumber) /\ t.found)
                => /\ ~HasLineItemTransaction(customBudgetDepartments',
                                              item.department, item.lineNumber)
                   /\ (DOMAIN t.reg[item.department] = {item.lineNumber}
                         => item.department \notin DOMAIN customBudgetDepartments')
                   /\ ~HasLineItem(budget, item.department, item.lineNumber)
                   /\ (Len(RecordsOf(last'.occupant)) = 1
                         => LineItemFigures(budget') = LineItemFigures(budget))]_vars

\* C3 witness: the host refused the department of a building with a fixed
\* cost on line 1 of department 1; neither the host nor the registry has it
C3_Witness ==
    /\ last.event = "insert" /\ last.active /\ fault = "none"
    /\ last.occupant = <<"fixed", 1, 1>>
    /\ 1 \notin DOMAIN budget
    /\ 1 \notin DOMAIN customBudgetDepartments

\* C4: without a budget simulator the handlers of building-inserted,
\* building-removed and month-elapsed change neither the registry nor the
\* host budget and run into no fault.
C4_UninitializedHandlersDoNothing ==
    [][(last'.event \in {"insert", "remove", "month"} /\ ~last'.active) =>
         /\ customBudgetDepartments' = customBudgetDepartments
         /\ budget' = budget
         /\ fault' = "none"]_vars

\* C5: a load from a stream with a registry version or a transaction version
\* other than 1 leaves the registry as it was before the load, or empty.
C5_CorruptLoadKeepsOrEmptiesRegistry ==
    [][(last'.event = "load" /\ segment' \in CorruptStreams) =>
         customBudgetDepartments' \in {customBudgetDepartments, EmptyMap}]_vars

\* C6: a load from a stream whose leading version field is not 1 leaves the
\* registry as it was before the load and raises no fault.
C6_UnsupportedVersionLeavesRegistry ==
    [][(/\ last'.event = "load" /\ segment'.present
        /\ LeadingVersion(segment').ok
        /\ LeadingVersion(segment').v # kRegistryVersion)
       => customBudgetDepartments' = customBudgetDepartments /\ fault' = "none"]_vars

\* C6 witness: a registry with a department has gone through a load from
\* the stream with registry version 2
C6_Witness ==
    /\ last.event = "load" /\ fault = "none"
    /\ segment = RegistryVersion2Stream
    /\ customBudgetDepartments # EmptyMap

\* C7: no handler lets an exception out to the host.
C7_NoExceptionReachesHost == fault # "exception"

\* C8: a save followed at once by a load of the segment saved to yields the
\* registry there was before the save.
C8_SaveThenLoadKeepsRegistry ==
    [][(/\ last.event = "save" /\ last'.event = "load" /\ segment' = segment
        /\ fault' = "none") =>
         customBudgetDepartments' = customBudgetDepartments]_vars

\* C9: after a load the registry is the one stored in the segment, and is
\* empty when the segment has no registry stream.
C9_LoadReplacesRegistry ==
    [][last'.event = "load" =>
         /\ (segment' = NoStream => customBudgetDepartments' = EmptyMap)
         /\ (segment' = SoundStream => customBudgetDepartments' = StoredRegistry)]_vars

\* C10: a removal, handled with a budget simulator, that comes to a record
\* whose host line item has building counter 1 runs into no fault for that
\* record and removes the line item from the host department and the
\* transaction from the registry, and the department entry of the registry
\* too when that line was its only one.
C10_RemovingLastBuildingRemovesLine ==
    [][(last'.event = "remove" /\ last'.active) =>
         \A i \in DOMAIN RecordsOf(last'.occupant) :
            LET item == RecordsOf(last'.occupant)[i]
                pre == RemoveItems(HandlerState,
                                   SubSeq(RecordsOf(last'.occupant), 1, i - 1), 1,
                                   populationProvider, city)
            IN  (/\ pre.fault = "none"
                 /\ HasLineItem(pre.host, item.department, item.lineNumber)
                 /\ pre.host[item.department].lineItems[item.lineNumber]
                        .secondaryInfoField = 1)
                => /\ RemoveItem(pre, item, populationProvider, city).fault = "none"
                   /\ ~HasLineItem(budget', item.department, item.lineNumber)
                   /\ ~HasLineItemTransaction(customBudgetDepartments',
                                              item.department, item.lineNumber)
                   /\ ((/\ item.department \in DOMAIN pre.reg
                        /\ DOMAIN pre.reg[item.department] = {item.lineNumber})
                       => item.department \notin DOMAIN customBudgetDepartments')]_vars

\* C10 witness: the only building of line 1 of department 1 was removed: the
\* host department has lost the line and the registry the department
C10_Witness ==
    /\ last.event = "remove" /\ last.active /\ fault = "none"
    /\ last.occupant = <<"fixed", 1, 1>>
    /\ HasLineItem(last.before, 1, 1)
    /\ last.before[1].lineItems[1].secondaryInfoField = 1
    /\ 1 \in DOMAIN budget /\ ~HasLineItem(budget, 1, 1)
    /\ 1 \notin DOMAIN customBudgetDepartments

(***************************************************************************)
(* The records of an insertion.  The host's refusals and what the build    *)
(* makes of undefined behaviour are not recorded in the state: a claim     *)
(* about the records of an insertion is stated for every refuse and ub     *)
(* under which InsertOccupant yields the step taken.                       *)
(***************************************************************************)
\* does InsertOccupant, under refuse and ub, yield the step's new state
InsertionYieldsStep(refuse, ub) ==
    InsertOccupant(HandlerState, TRUE, Occupant(last'.occupant), refuse,
                   populationProvider, city, ub)
      = [reg |-> customBudgetDepartments', host |-> budget', fault |-> fault']

\* the handler state when the insertion of the occupant comes to its i-th
\* record
BeforeRecord(name, i, refuse, ub) ==
    InsertItems(HandlerState, Occupant(name).holder,
                SubSeq(RecordsOf(name), 1, i - 1), 1, refuse, populationProvider,
                city, ub)

\* what C11 says of the i-th record of an insertion: with the transaction,
\* the department and the line item obtained, the counter is one more, the
\* record's total is CalculateLineItemTotal of the new counter, and the
\* display flag is on when the new counter is more than 1 and as it was
\* otherwise
RecordIsCounted(name, i, refuse, ub) ==
    LET holder == Occupant(name).holder
        item == RecordsOf(name)[i]
        pre == BeforeRecord(name, i, refuse, ub)
        t == GetOrCreateLineItemTransaction(pre.reg, holder, item, ub)
        d == GetOrCreateBudgetDepartment(pre.host, item, refuse)
        l == GetOrCreateLineItem(d.host, item, refuse)
        post == InsertItem(pre, holder, item, refuse, populationProvider, city, ub)
        old == l.host[item.department].lineItems[item.lineNumber]
        new == post.host[item.department].lineItems[item.lineNumber]
        total == CalculateLineItemTotal(t.reg[item.department][item.lineNumber],
                                        old.secondaryInfoField + 1,
                                        populationProvider, city)
    IN  (pre.fault = "none" /\ t.fault = "none" /\ t.found /\ d.ok /\ l.ok)
        => /\ post.fault = "none"
           /\ new.secondaryInfoField = old.secondaryInfoField + 1
           /\ total.fault = "none"
           /\ IF item.type = "Expense" THEN new.fullExpenses = total.v
              ELSE new.income = total.v
           /\ new.showSecondaryInfoField
                = (old.showSecondaryInfoField \/ new.secondaryInfoField > 1)

\* C11: for every record of an insertion handled with a budget simulator
\* for which the transaction, the host department and the host line item
\* are obtained, the handler raises the building counter by 1, sets the
\* record's total to CalculateLineItemTotal of the new counter and turns
\* the display flag on exactly when the new counter is more than 1.
C11_InsertedRecordIsCounted ==
    [][(last'.event = "insert" /\ last'.active) =>
         \A refuse \in RefuseChoices, ub \in UndefinedOutcomes :
            InsertionYieldsStep(refuse, ub)
            => \A i \in DOMAIN RecordsOf(last'.occupant) :
                  RecordIsCounted(last'.occupant, i, refuse, ub)]_vars

\* the lines that have both a fixed-cost transaction in the registry and a
\* line item in the host budget
FixedCostLines ==
    {dl \in Departments \X Lines :
        /\ HasLineItemTransaction(customBudgetDepartments, dl[1], dl[2])
        /\ IsFixedCost(customBudgetDepartments[dl[1]][dl[2]])
        /\ HasLineItem(budget, dl[1], dl[2])}

\* C12: a month-elapsed event leaves the income, the expense, the counter
\* and the display flag of every host line item whose registered transaction
\* is fixed-cost as they were, whatever the population figures are.
C12_MonthKeepsFixedCostLines ==
    [][last'.event = "month" =>
         \A dl \in FixedCostLines :
            /\ HasLineItem(budget', dl[1], dl[2])
            /\ budget'[dl[1]].lineItems[dl[2]] = budget[dl[1]].lineItems[dl[2]]]_vars

\* a month-elapsed event was handled with a budget simulator while a
\* fixed-cost line held a total other than the one its transaction
\* calculates, so that a recalculation would have shown
C12_Witness ==
    /\ last.event = "month" /\ last.active /\ fault = "none"
    /\ \E dl \in FixedCostLines :
          LET lineItem == budget[dl[1]].lineItems[dl[2]]
          IN  CalculateLineItemTotal(customBudgetDepartments[dl[1]][dl[2]],
                                     lineItem.secondaryInfoField,
                                     populationProvider, city).v
                # lineItem.fullExpenses

\* the lines that have both a transaction with an algorithm in the registry
\* and a line item in the host budget
RecalculatedLines ==
    {dl \in Departments \X Lines :
        /\ HasLineItemTransaction(customBudgetDepartments, dl[1], dl[2])
        /\ ~IsFixedCost(customBudgetDepartments[dl[1]][dl[2]])
        /\ HasLineItem(budget, dl[1], dl[2])}

\* is the line's total in host budget h the one its transaction calculates
\* for the line's counter and the current population figures
TotalIsCalculated(h, dl) ==
    LET tx == customBudgetDepartments[dl[1]][dl[2]]
        lineItem == h[dl[1]].lineItems[dl[2]]
        total == CalculateLineItemTotal(tx, lineItem.secondaryInfoField,
                                        populationProvider, city)
    IN  /\ total.fault = "none"
        /\ IF IsIncome(tx) THEN lineItem.income = total.v
           ELSE lineItem.fullExpenses = total.v

\* C13: a month-elapsed event handled with a budget simulator completes
\* and leaves every line that has a transaction with an algorithm and a
\* host line item with the total CalculateLineItemTotal gives for its
\* counter and the current population figures, in the income field of an
\* income transaction and in the expense field otherwise; the registry and
\* every building counter are as before the event.
C13_MonthRecalculatesTotals ==
    [][(last'.event = "month" /\ last'.active) =>
         /\ fault' = "none"
         /\ customBudgetDepartments' = customBudgetDepartments
         /\ \A dl \in Departments \X Lines :
               HasLineItem(budget, dl[1], dl[2])
               => /\ HasLineItem(budget', dl[1], dl[2])
                  /\ budget'[dl[1]].lineItems[dl[2]].secondaryInfoField
                       = budget[dl[1]].lineItems[dl[2]].secondaryInfoField
         /\ \A dl \in RecalculatedLines : TotalIsCalculated(budget', dl)]_vars

\* does the i-th record of the occupant name a department the host does not
\* have when the insertion comes to it, with a budget group that is not
\* recognised
NamesUnknownGroup(name, i, refuse, ub) ==
    LET item == RecordsOf(name)[i]
        pre == BeforeRecord(name, i, refuse, ub)
    IN  /\ pre.fault = "none"
        /\ item.department \notin DOMAIN pre.host
        /\ ~IsValidBudgetGroup(item.budgetGroup)

\* what C14 says of such a record: whatever the host would answer, the
\* department is not obtained and the host is left alone; after the record
\* the host budget is as before it, without the department, and the
\* registry has no transaction for the record
UnknownGroupIsRejected(name, i, refuse, ub) ==
    LET holder == Occupant(name).holder
        item == RecordsOf(name)[i]
        pre == BeforeRecord(name, i, refuse, ub)
        post == InsertItem(pre, holder, item, refuse, populationProvider, city, ub)
    IN  /\ \A host \in RefuseChoices :
              GetOrCreateBudgetDepartment(pre.host, item, host)
                = [host |-> pre.host, ok |-> FALSE]
        /\ post.host = pre.host
        /\ item.department \notin DOMAIN post.host
        /\ ~HasLineItemTransaction(post.reg, item.department, item.lineNumber)

\* C14: when a record of an inserted building names a department the host
\* does not have and a budget group that is not one of the 7 recognised
\* ones, the host is not asked to create the department, no department and
\* no line item exist for the record afterwards, and no transaction for the
\* record stays in the registry.
C14_UnknownBudgetGroupCreatesNothing ==
    [][(last'.event = "insert" /\ last'.active) =>
         \A refuse \in RefuseChoices, ub \in UndefinedOutcomes :
            InsertionYieldsStep(refuse, ub)
            => \A i \in DOMAIN RecordsOf(last'.occupant) :
                  NamesUnknownGroup(last'.occupant, i, refuse, ub)
                  => /\ UnknownGroupIsRejected(last'.occupant, i, refuse, ub)
                     /\ Len(RecordsOf(last'.occupant)) = 1
                          => /\ budget' = budget
                             /\ fault' = "none"
                             /\ ~HasLineItemTransaction(customBudgetDepartments',
                                     RecordsOf(last'.occupant)[i].department,
                                     RecordsOf(last'.occupant)[i].lineNumber)]_vars

\* a building whose only record names an unrecognised budget group and a
\* department the host does not have was inserted with a budget simulator
C14_Witness ==
    /\ last.event = "insert" /\ last.active /\ fault = "none"
    /\ Len(RecordsOf(last.occupant)) = 1
    /\ LET item == RecordsOf(last.occupant)[1]
       IN  /\ ~IsValidBudgetGroup(item.budgetGroup)
           /\ item.department \notin DOMAIN last.before
           /\ item.department \notin DOMAIN budget
           /\ ~HasLineItemTransaction(customBudgetDepartments, item.department,
                                      item.lineNumber)

\* C15: every Tourism algorithm held by a registered transaction, built at
\* an insertion or restored by a load, has a geopolitics factor greater
\* than 0, and no handler divides by zero.
C15_GeopoliticsFactorIsPositive ==
    /\ fault # "divide"
    /\ \A department \in DOMAIN customBudgetDepartments :
          \A line \in DOMAIN customBudgetDepartments[department] :
             LET algorithm == customBudgetDepartments[department][line].algorithm
             IN  algorithm.type = Tourism => algorithm.geopoliticsFactor > 0

\* the algorithm type the exemplar's algorithm table names for the line, as
\* CreateLineItemTransaction reads it
TypeOfLine(holder, lineNumber) ==
    LET algorithms == GetUint32PairMap(holder.algorithm)
    IN  IF algorithms.ok /\ lineNumber \in DOMAIN algorithms.values
        THEN algorithms.values[lineNumber][1]
        ELSE Fixed

\* the 0-based starts of the groups of a Tourism table that name the line
GroupsOfLine(values, lineNumber) ==
    {k \in 0..(Len(values) - 1) :
        k % kTourismGroupCount = 0 /\ values[k + 1] = lineNumber}

\* the group the exemplar declares for the line: line number, numerator,
\* denominator, geopolitics factor
DeclaredGroup(holder, lineNumber) ==
    LET groups == GroupsOfLine(holder.tourism.values, lineNumber)
        k == CHOOSE g \in groups : \A other \in groups : g <= other
    IN  SubSeq(holder.tourism.values, k + 1, k + kTourismGroupCount)

\* the defects of building data C16 lists
IsDefective(holder, type, lineNumber, isIncome) ==
    IF type = ResidentialTotalPopulation
    THEN ~GetFloatValue(IF isIncome THEN holder.rtpIncome ELSE holder.rtpExpense).ok
    ELSE IF type = ResidentialWealthGroupPopulation
    THEN LET values == GetFloatVector(IF isIncome THEN holder.rwgIncome
                                      ELSE holder.rwgExpense)
         IN  ~values.ok \/ Len(values.values) # 3
    ELSE \/ holder.tourism.type # "Sint64Array"
         \/ Len(holder.tourism.values) = 0
         \/ Len(holder.tourism.values) % kTourismGroupCount # 0
         \/ GroupsOfLine(holder.tourism.values, lineNumber) = {}
         \/ LET group == DeclaredGroup(holder, lineNumber)
            IN  \/ group[3] <= 0 \/ group[3] > kInt32Max
                \/ group[2] < kInt32Min \/ group[2] > kInt32Max

\* the algorithm that carries the data the exemplar declares
DeclaredAlgorithm(holder, type, lineNumber, isIncome) ==
    IF type = ResidentialTotalPopulation
    THEN ResidentialTotalPopulationAlgorithm(
             GetFloatValue(IF isIncome THEN holder.rtpIncome
                           ELSE holder.rtpExpense).value)
    ELSE IF type = ResidentialWealthGroupPopulation
    THEN LET values == GetFloatVector(IF isIncome THEN holder.rwgIncome
                                      ELSE holder.rwgExpense).values
         IN  ResidentialWealthGroupPopulationAlgorithm(values[1], values[2],
                                                       values[3])
    ELSE LET group == DeclaredGroup(holder, lineNumber)
         IN  TourismAlgorithm(Rational64ToFloat(group[2], group[3]).value,
                              group[4])

\* does the insertion construct an algorithm with factors for its i-th
\* record: the record's line has no transaction yet and the exemplar names
\* one of the three types with factors for it
ConstructsAlgorithm(name, i, refuse, ub) ==
    LET item == RecordsOf(name)[i]
        pre == BeforeRecord(name, i, refuse, ub)
    IN  /\ pre.fault = "none"
        /\ ~HasLineItemTransaction(pre.reg, item.department, item.lineNumber)
        /\ TypeOfLine(Occupant(name).holder, item.lineNumber)
              \in {ResidentialTotalPopulation, ResidentialWealthGroupPopulation,
                   Tourism}

\* what C16 says of the construction: it completes, it fails for defective
\* data, and otherwise it fails or returns the declared algorithm
ConstructionIsFaithful(holder, type, lineNumber, isIncome, ub) ==
    LET made == CreateFromHolder(holder, type, lineNumber, isIncome, ub)
    IN  /\ made.fault = "none"
        /\ IsDefective(holder, type, lineNumber, isIncome) => made.threw
        /\ ~made.threw
             => made.algorithm = DeclaredAlgorithm(holder, type, lineNumber, isIncome)

\* C16: constructing an algorithm with factors from building data returns
\* an algorithm whose factors are the declared ones or fails with an
\* algorithm-creation error, and fails for a missing property, a wrong
\* element type, a wrong element count, a line the Tourism table does not
\* hold, a denominator that is not in 1..2^31-1 and a numerator outside the
\* signed 32-bit range.
C16_ConstructionFromBuildingData ==
    [][(last'.event = "insert" /\ last'.active) =>
         \A refuse \in RefuseChoices, ub \in UndefinedOutcomes :
            InsertionYieldsStep(refuse, ub)
            => \A i \in DOMAIN RecordsOf(last'.occupant) :
                  ConstructsAlgorithm(last'.occupant, i, refuse, ub)
                  => LET holder == Occupant(last'.occupant).holder
                         item == RecordsOf(last'.occupant)[i]
                     IN  ConstructionIsFaithful(holder,
                             TypeOfLine(holder, item.lineNumber), item.lineNumber,
                             item.type = "Income", ub)]_vars

KnownTypes ==
    {Fixed, ResidentialTotalPopulation, ResidentialWealthGroupPopulation, Tourism}

\* what C17 says of the i-th record of an insertion whose line has no
\* transaction yet: for the Fixed type the construction from building data
\* yields no algorithm; for a type that is not known it fails and the line
\* has no transaction after the record
TypeIsHonoured(name, i, refuse, ub) ==
    LET holder == Occupant(name).holder
        item == RecordsOf(name)[i]
        pre == BeforeRecord(name, i, refuse, ub)
        type == TypeOfLine(holder, item.lineNumber)
        made == CreateFromHolder(holder, type, item.lineNumber,
                                 item.type = "Income", ub)
        post == InsertItem(pre, holder, item, refuse, populationProvider, city, ub)
    IN  (/\ pre.fault = "none"
         /\ ~HasLineItemTransaction(pre.reg, item.department, item.lineNumber))
        => /\ type = Fixed => made = Made(NoAlgorithm)
           /\ type \notin KnownTypes
                => /\ made.threw
                   /\ ~HasLineItemTransaction(post.reg, item.department,
                                              item.lineNumber)

\* C17: on the construction from a stored type tag and on the construction
\* from building data the Fixed type yields no algorithm and a type that is
\* not one of the four known ones yields a failure, so a building whose
\* algorithm table names an unknown type for a line gets no transaction for
\* that line.
C17_UnknownTypeFailsConstruction ==
    [][(last'.event = "insert" /\ last'.active) =>
         /\ CreateFromType(Fixed) = [threw |-> FALSE, algorithm |-> NoAlgorithm]
         /\ \A type \in (0..UnknownType) \ KnownTypes : CreateFromType(type).threw
         /\ \A refuse \in RefuseChoices, ub \in UndefinedOutcomes :
               InsertionYieldsStep(refuse, ub)
               => \A i \in DOMAIN RecordsOf(last'.occupant) :
                     TypeIsHonoured(last'.occupant, i, refuse, ub)]_vars

\* does the construction of the algorithm fail for the i-th record of the
\* insertion, whose line has no transaction when the insertion comes to it
ConstructionFails(name, i, refuse, ub) ==
    LET holder == Occupant(name).holder
        item == RecordsOf(name)[i]
        pre == BeforeRecord(name, i, refuse, ub)
        made == CreateFromHolder(holder, TypeOfLine(holder, item.lineNumber),
                                 item.lineNumber, item.type = "Income", ub)
    IN  /\ pre.fault = "none"
        /\ ~HasLineItemTransaction(pre.reg, item.department, item.lineNumber)
        /\ made.fault = "none" /\ made.threw

\* the records of the occupant without the i-th
OtherRecords(name, i) ==
    SubSeq(RecordsOf(name), 1, i - 1)
      \o SubSeq(RecordsOf(name), i + 1, Len(RecordsOf(name)))

\* C18: when the construction of the algorithm fails for a record of an
\* inserted building whose line has no registered transaction, the record
\* changes nothing in the registry and in the host budget, and the
\* insertion does what the insertion of the building's other records does.
C18_FailedConstructionChangesNothing ==
    [][(last'.event = "insert" /\ last'.active) =>
         \A refuse \in RefuseChoices, ub \in UndefinedOutcomes :
            InsertionYieldsStep(refuse, ub)
            => \A i \in DOMAIN RecordsOf(last'.occupant) :
                  ConstructionFails(last'.occupant, i, refuse, ub)
                  => /\ InsertItem(BeforeRecord(last'.occupant, i, refuse, ub),
                                   Occupant(last'.occupant).holder,
                                   RecordsOf(last'.occupant)[i], refuse,
                                   populationProvider, city, ub)
                          = BeforeRecord(last'.occupant, i, refuse, ub)
                     /\ InsertItems(HandlerState, Occupant(last'.occupant).holder,
                                    OtherRecords(last'.occupant, i), 1, refuse,
                                    populationProvider, city, ub)
                          = [reg |-> customBudgetDepartments', host |-> budget',
                             fault |-> fault']]_vars

\* a building was inserted of which one record names the Tourism type
\* without a Tourism table and got no transaction and no line item, while
\* another record was counted on its line
C18_Witness ==
    /\ last.event = "insert" /\ last.active /\ fault = "none"
    /\ \E i, j \in DOMAIN RecordsOf(last.occupant) :
          LET holder == Occupant(last.occupant).holder
              failed == RecordsOf(last.occupant)[i]
              other == RecordsOf(last.occupant)[j]
          IN  /\ i # j
              /\ TypeOfLine(holder, failed.lineNumber) = Tourism
              /\ holder.tourism.type = "None"
              /\ ~HasLineItemTransaction(customBudgetDepartments,
                                         failed.department, failed.lineNumber)
              /\ ~HasLineItem(budget, failed.department, failed.lineNumber)
              /\ HasLineItemTransaction(customBudgetDepartments,
                                        other.department, other.lineNumber)
              /\ HasLineItem(budget, other.department, other.lineNumber)
              /\ budget[other.department].lineItems[other.lineNumber]
                    .secondaryInfoField
                   = 1 + IF HasLineItem(last.before, other.department,
                                        other.lineNumber)
                         THEN last.before[other.department]
                                .lineItems[other.lineNumber].secondaryInfoField
                         ELSE 0

WealthDemandIds == {kLowWealthDemandId, kMediumWealthDemandId, kHighWealthDemandId}

\* C19: while the provider is not initialised, which includes the time
\* after a Shutdown that followed an Init that captured regional totals,
\* the city residential population, the city demand supply of each
\* category, the regional residential total and the regional population of
\* each wealth tier are all returned as 0.
C19_UninitializedProviderReturnsZero ==
    ~populationProvider.initialized
    => /\ GetCityResidentialPopulation(populationProvider, city) = 0
       /\ GetRegionResidentialPopulation(populationProvider) = 0
       /\ \A demandId \in WealthDemandIds :
             /\ GetCityPopulation(populationProvider, city, demandId) = 0
             /\ GetRegionPopulation(populationProvider, demandId) = 0

\* does the host application offer an active city, a regional city, a
\* region, a residential simulator and a demand simulator
OffersEverything(app) ==
    /\ app.city /\ app.regionalCity /\ app.region
    /\ app.residentialSimulator /\ app.demandSimulator

\* C20: a call of PopulationProvider::Init made while the host lacks an
\* active city, a regional city, a region, a residential simulator or a
\* demand simulator returns failure, also when it follows a failed Init
\* with no Shutdown in between.
C20_InitFailsWithoutHostObjects ==
    (last.init.called /\ ~OffersEverything(last.init.app)) => ~last.init.result

\* the four regional totals the provider holds
RegionalTotals(pp) ==
    <<GetRegionResidentialPopulation(pp), GetRegionPopulation(pp, kLowWealthDemandId),
      GetRegionPopulation(pp, kMediumWealthDemandId),
      GetRegionPopulation(pp, kHighWealthDemandId)>>

\* the cities of the host's region that are established and lie elsewhere
\* than the current city
OtherEstablishedCities(app) ==
    {i \in DOMAIN app.cities :
        /\ app.cities[i].established
        /\ ~(app.cities[i].x = app.x /\ app.cities[i].z = app.z)}

RECURSIVE SumOfCities(_, _, _)
SumOfCities(app, indices, field) ==
    IF indices = {} THEN 0
    ELSE LET i == CHOOSE j \in indices : TRUE
         IN  app.cities[i][field] + SumOfCities(app, indices \ {i}, field)

\* the totals of the host's region, over those cities
TotalsOfRegion(app) ==
    LET counted == OtherEstablishedCities(app)
    IN  <<SumOfCities(app, counted, "population"), SumOfCities(app, counted, "low"),
          SumOfCities(app, counted, "medium"), SumOfCities(app, counted, "high")>>

\* has an Init of the provider succeeded since the last Shutdown: the
\* provider is initialised and holds both simulators (every host of the
\* model that has a city has its region)
HoldsSnapshot(pp) ==
    pp.initialized /\ pp.pResidentialSimulator /\ pp.pDemandSimulator

\* C21: after the first Init that returns success since the last Shutdown,
\* in a host that has a city, its regional city, its region and both
\* simulators, each regional total is the sum of that figure over the region's cities
\* that are established and lie elsewhere than the current city, and from
\* then on the totals stay as they are until Shutdown, whatever the later
\* messages and Init calls.
C21_RegionalTotalsAreASnapshot ==
    [][/\ (last'.init.called /\ last'.init.result
             /\ OffersEverything(last'.init.app)
             /\ ~HoldsSnapshot(populationProvider))
          => RegionalTotals(populationProvider') = TotalsOfRegion(last'.init.app)
       /\ (HoldsSnapshot(populationProvider) /\ last'.event # "shutdown")
          => RegionalTotals(populationProvider')
               = RegionalTotals(populationProvider)]_vars

\* C22: the city-shutdown event leaves the registry empty, the manager
\* without a budget simulator and the population provider uninitialised and
\* without simulators; an empty registry becomes non-empty only by a load
\* or by an insertion handled with a budget simulator.
C22_ShutdownClearsSession ==
    [][/\ last'.event = "shutdown"
          => /\ customBudgetDepartments' = EmptyMap
             /\ ~pBudgetSim'
             /\ ~populationProvider'.initialized
             /\ ~populationProvider'.pResidentialSimulator
             /\ ~populationProvider'.pDemandSimulator
       /\ (customBudgetDepartments = EmptyMap /\ customBudgetDepartments' # EmptyMap)
          => \/ last'.event = "load"
             \/ last'.event = "insert" /\ last'.active]_vars

\* the city was shut down in a session in which the insertion of the
\* building with an income record had created its department and raised
\* its income
C22_Witness ==
    /\ last.event = "shutdown" /\ last.active
    /\ customBudgetDepartments = EmptyMap
    /\ \E department \in DOMAIN budget :
          /\ budget[department].budgetGroup = kBudgetGroupBusinessDeals
          /\ \E line \in DOMAIN budget[department].lineItems :
                budget[department].lineItems[line].secondaryInfoField > 0

\* the transactions of the registry
RegisteredTransactions ==
    {customBudgetDepartments[dl[1]][dl[2]] :
        dl \in {x \in Departments \X Lines :
                   HasLineItemTransaction(customBudgetDepartments, x[1], x[2])}}

\* the building counts C23 is about
NonPositiveCounts == (-MaxEvents)..0

\* C23: for every registered transaction, fixed-cost or with any algorithm,
\* and every building count that is 0 or less, CalculateLineItemTotal is 0
\* whatever the population figures are, and completes also where the
\* algorithm would trap.
C23_NoBuildingsNoTotal ==
    \A tx \in RegisteredTransactions, buildingCount \in NonPositiveCounts,
       figures \in CityFigures :
       CalculateLineItemTotal(tx, buildingCount, populationProvider, figures)
         = [v |-> 0, fault |-> "none"]

\* the last building of a line was removed whose department an insertion
\* of the same building had created with the building's transaction, which
\* has an algorithm: the removal calculated the total of 0 buildings
C23_Witness ==
    /\ last.event = "remove" /\ last.active /\ fault = "none"
    /\ \E i \in DOMAIN RecordsOf(last.occupant) :
          LET item == RecordsOf(last.occupant)[i]
          IN  /\ TypeOfLine(Occupant(last.occupant).holder, item.lineNumber)
                    = ResidentialTotalPopulation
              /\ HasLineItem(last.before, item.department, item.lineNumber)
              /\ last.before[item.department].budgetGroup = item.budgetGroup
              /\ item.budgetGroup = kBudgetGroupBusinessDeals
              /\ last.before[item.department].lineItems[item.lineNumber]
                    .secondaryInfoField = 1
              /\ ~HasLineItem(budget, item.department, item.lineNumber)
              /\ ~HasLineItemTransaction(customBudgetDepartments, item.department,
                                         item.lineNumber)

\* the building counts C24 is about
PositiveCounts == 1..(MaxEvents + 1)

\* the total of the line of a record in host budget h, in the field of the
\* record's type
TotalOfRecord(h, item) ==
    LET lineItem == h[item.department].lineItems[item.lineNumber]
    IN  IF item.type = "Expense" THEN lineItem.fullExpenses ELSE lineItem.income

\* C24: for every registered transaction without an algorithm and every
\* building count above 0, CalculateLineItemTotal is the transaction's
\* per-building amount times the count, whatever the population figures
\* are; an insertion that completes leaves the line of each of its records
\* that has such a transaction with that amount times the line's counter.
C24_FixedCostTotalIsAmountTimesCount ==
    [][/\ \A tx \in RegisteredTransactions', buildingCount \in PositiveCounts,
             figures \in CityFigures :
             IsFixedCost(tx)
             => CalculateLineItemTotal(tx, buildingCount, populationProvider',
                                       figures)
                  = [v |-> tx.perBuildingFixedCashFlow * buildingCount,
                     fault |-> "none"]
       /\ (last'.event = "insert" /\ last'.active /\ fault' = "none")
          => \A i \in DOMAIN RecordsOf(last'.occupant) :
                LET item == RecordsOf(last'.occupant)[i]
                IN  (/\ HasLineItemTransaction(customBudgetDepartments',
                                               item.department, item.lineNumber)
                     /\ IsFixedCost(customBudgetDepartments'[item.department]
                                                           [item.lineNumber])
                     /\ HasLineItem(budget', item.department, item.lineNumber))
                    => TotalOfRecord(budget', item)
                         = customBudgetDepartments'[item.department]
                             [item.lineNumber].perBuildingFixedCashFlow
                           * budget'[item.department].lineItems[item.lineNumber]
                               .secondaryInfoField]_vars

\* a building was inserted on a line that has a fixed-cost transaction with
\* an amount other than the record's cost, while the provider held a
\* snapshot, and the line now counts two buildings or more
C24_Witness ==
    /\ last.event = "insert" /\ last.active /\ fault = "none"
    /\ HoldsSnapshot(populationProvider)
    /\ \E i \in DOMAIN RecordsOf(last.occupant) :
          LET item == RecordsOf(last.occupant)[i]
          IN  /\ HasLineItemTransaction(customBudgetDepartments, item.department,
                                        item.lineNumber)
              /\ IsFixedCost(customBudgetDepartments[item.department]
                                                    [item.lineNumber])
              /\ customBudgetDepartments[item.department][item.lineNumber]
                    .perBuildingFixedCashFlow # item.cost
              /\ HasLineItem(budget, item.department, item.lineNumber)
              /\ budget[item.department].lineItems[item.lineNumber]
                    .secondaryInfoField >= 2

FOneAndHalf == MkFloat(0, 127, 4194304)

\* transactions of each kind, beside those the registry holds
SampleTransactions ==
    { MkTransaction(NoAlgorithm, 10, FALSE),
      MkTransaction(NoAlgorithm, -3, TRUE),
      MkTransaction(ResidentialTotalPopulationAlgorithm(FDefaultPopulationFactor),
                    5, TRUE),
      MkTransaction(ResidentialWealthGroupPopulationAlgorithm(
                        FHalf, FMinusHalf, FDefaultPopulationFactor), 0, FALSE),
      MkTransaction(TourismAlgorithm(FHalf, 2), 7, FALSE),
      MkTransaction(TourismAlgorithm(FOneAndHalf, 3), -3, TRUE) }

\* C25: for every transaction the registry holds and for a transaction of
\* each algorithm type, Write followed by Read into a fresh transaction
\* succeeds, consumes what was written and yields the same per-building
\* amount, income flag, algorithm type and factors; a transaction without
\* an algorithm is written with the type tag 0.
C25_WriteThenReadIsIdentity ==
    \A tx \in RegisteredTransactions \cup SampleTransactions :
       LET written == TransactionWrite(tx)
           read == TransactionRead(DefaultTransaction, written, 1)
       IN  /\ read = [ok |-> TRUE, threw |-> FALSE, tx |-> tx,
                      pos |-> Len(written) + 1]
           /\ IsFixedCost(tx)
              => SubSeq(written, Len(written) - 3, Len(written)) = U32Bytes(Fixed)

\* a load has read the stream that Write makes of the registry, which holds
\* a transaction without an algorithm and one with the Tourism algorithm
C25_Witness ==
    /\ last.event = "load" /\ fault = "none"
    /\ segment.present
    /\ segment.bytes = WriteToDBSegment(customBudgetDepartments, TRUE)
    /\ \E tx \in RegisteredTransactions : IsFixedCost(tx)
    /\ \E tx \in RegisteredTransactions :
          tx.algorithm.type = Tourism /\ tx.algorithm.geopoliticsFactor > 0

\* the formula of the Tourism algorithm: the three city populations and the
\* three regional populations times the tourism factor, added up and then
\* divided by the geopolitics factor, the quotient cut to an integer
TourismFormula(alg, pp, figures) ==
    LET d == FractionOf(alg.factors[1])
        citySum == GetCityPopulation(pp, figures, kLowWealthDemandId)
                     + GetCityPopulation(pp, figures, kMediumWealthDemandId)
                     + GetCityPopulation(pp, figures, kHighWealthDemandId)
        regionSum == GetRegionPopulation(pp, kLowWealthDemandId)
                       + GetRegionPopulation(pp, kMediumWealthDemandId)
                       + GetRegionPopulation(pp, kHighWealthDemandId)
    IN  TruncDiv(citySum * Pow2(d.shift) + regionSum * d.num,
                 Pow2(d.shift) * alg.geopoliticsFactor)

\* C26: for every registered Tourism algorithm with a geopolitics factor
\* above 0 and every initial total, Calculate is the initial total plus the
\* value of the formula (cityLow + cityMedium + cityHigh + the three
\* regional populations times the tourism factor) / geopoliticsFactor, also
\* where the regional products are not whole numbers.
C26_TourismFollowsFormula ==
    \A tx \in RegisteredTransactions :
       (tx.algorithm.type = Tourism /\ tx.algorithm.geopoliticsFactor > 0)
       => \A initialTotal \in {0, tx.perBuildingFixedCashFlow} :
             Calculate(tx.algorithm, initialTotal, populationProvider, city)
               = [v |-> initialTotal
                          + TourismFormula(tx.algorithm, populationProvider, city),
                  fault |-> "none"]

InitialTotals == {-9, 9}

WealthGroupSamples ==
    { MkTransaction(ResidentialWealthGroupPopulationAlgorithm(low, medium, high),
                    0, FALSE) :
        low \in {FHalf, FMinusHalf}, medium \in {FSixteenth},
        high \in {FZero, FOneAndHalf, FMinusHalf} }

\* C27: for every ResidentialWealthGroupPopulation algorithm, registered
\* or of the samples, every initial total and the figures of the city,
\* Calculate is the initial total plus the low, medium and high tier
\* populations each times its factor, each product cut toward zero on its
\* own, negative factors included.
C27_WealthGroupTruncatesEachTerm ==
    \A tx \in RegisteredTransactions \cup WealthGroupSamples :
       tx.algorithm.type = ResidentialWealthGroupPopulation
       => \A initialTotal \in InitialTotals :
             Calculate(tx.algorithm, initialTotal, populationProvider, city)
               = [v |-> initialTotal
                          + ExactTrunc(GetCityPopulation(populationProvider, city,
                                                         kLowWealthDemandId),
                                       tx.algorithm.factors[1])
                          + ExactTrunc(GetCityPopulation(populationProvider, city,
                                                         kMediumWealthDemandId),
                                       tx.algorithm.factors[2])
                          + ExactTrunc(GetCityPopulation(populationProvider, city,
                                                         kHighWealthDemandId),
                                       tx.algorithm.factors[3]),
                  fault |-> "none"]

\* the building with the factors -0.5, 0.0625 and 0.0625 and the cost 9 was
\* inserted in a city of 101, 200 and 300 residents: 9 - 50 + 12 + 18
C27_Witness ==
    /\ last.event = "insert" /\ last.occupant = <<"wealth", 2, 1>> /\ last.active
    /\ populationProvider.pDemandSimulator
    /\ city.supply[kLowWealthDemandId] = 101
    /\ 2 \in DOMAIN customBudgetDepartments
    /\ 1 \in DOMAIN customBudgetDepartments[2]
    /\ customBudgetDepartments[2][1].algorithm
         = ResidentialWealthGroupPopulationAlgorithm(FMinusHalf, FSixteenth, FSixteenth)
    /\ 2 \in DOMAIN budget
    /\ 1 \in DOMAIN budget[2].lineItems
    /\ budget[2].lineItems[1].secondaryInfoField = 1
    /\ budget[2].lineItems[1].fullExpenses = -11

TotalPopulationSamples ==
    { MkTransaction(ResidentialTotalPopulationAlgorithm(factor), 0, isIncome) :
        factor \in {FZero, FHalf, FMinusHalf, FOneAndHalf, FSixteenth},
        isIncome \in BOOLEAN }

\* C28: for every ResidentialTotalPopulation algorithm, registered or of
\* the samples, with a factor of few binary digits (the default factor is
\* the last conjunct's), and every initial total, Calculate is the initial total
\* plus the city's residential population times the factor, the product cut
\* toward zero; with a provider that answers 0 it is the initial total; and
\* with the default factor 0.005f and 1000 residents the product is 4.
C28_TotalPopulationAddsToInitialTotal ==
    /\ \A tx \in RegisteredTransactions \cup TotalPopulationSamples :
          (/\ tx.algorithm.type = ResidentialTotalPopulation
           /\ tx.algorithm.factors[1] # FDefaultPopulationFactor)
          => \A initialTotal \in InitialTotals :
                LET result == Calculate(tx.algorithm, initialTotal,
                                        populationProvider, city)
                IN  /\ result.fault = "none"
                    /\ populationProvider.pResidentialSimulator
                       => result.v = initialTotal
                                       + ExactTrunc(city.population,
                                                    tx.algorithm.factors[1])
                    /\ (~populationProvider.pResidentialSimulator
                          \/ city.population = 0)
                       => result.v = initialTotal
    /\ \A initialTotal \in InitialTotals :
          (populationProvider.pResidentialSimulator /\ city.population = 1000)
          => Calculate(ResidentialTotalPopulationAlgorithm(FDefaultPopulationFactor),
                       initialTotal, populationProvider, city).v = initialTotal + 4

\* the building with the factor 0.5 and the income 5 was inserted in a city
\* of 1000 residents: 5 + 500
C28_Witness ==
    /\ last.event = "insert" /\ last.occupant = <<"income", 1, 1>> /\ last.active
    /\ populationProvider.pResidentialSimulator
    /\ city.population = 1000
    /\ 1 \in DOMAIN customBudgetDepartments
    /\ 1 \in DOMAIN customBudgetDepartments[1]
    /\ customBudgetDepartments[1][1].algorithm = ResidentialTotalPopulationAlgorithm(FHalf)
    /\ 1 \in DOMAIN budget
    /\ 1 \in DOMAIN budget[1].lineItems
    /\ budget[1].lineItems[1].secondaryInfoField = 1
    /\ budget[1].lineItems[1].income = 505

HostLines(h) ==
    {<<department, line>> \in (DOMAIN h) \X (1..(MaxLine + 1)) :
        line \in DOMAIN h[department].lineItems}

\* C29: in every handling of building-removed that ends, a line item whose
\* counter goes from 2 to 1 has its show-count flag off afterwards, a line
\* item whose counter goes from n > 2 to n - 1 keeps its flag, a flag that
\* changes changes with the counter going from 2 to 1, and no flag that was
\* off is on afterwards.
C29_RemovalHidesCountAtOne ==
    [][(last'.event = "remove" /\ last'.active /\ fault' = "none")
       => \A key \in HostLines(budget) \cap HostLines(budget') :
             LET before == budget[key[1]].lineItems[key[2]]
                 after == budget'[key[1]].lineItems[key[2]]
                 toOne == before.secondaryInfoField = 2
                            /\ after.secondaryInfoField = 1
             IN  /\ toOne => ~after.showSecondaryInfoField
                 /\ (before.secondaryInfoField > 2
                       /\ after.secondaryInfoField = before.secondaryInfoField - 1)
                    => after.showSecondaryInfoField = before.showSecondaryInfoField
                 /\ after.showSecondaryInfoField # before.showSecondaryInfoField
                    => toOne
                 /\ after.showSecondaryInfoField => before.showSecondaryInfoField]_vars

\* a building was removed from a line that counted three and showed the
\* count: it counts two and shows the count
C29_Witness ==
    /\ last.event = "remove" /\ last.active /\ fault = "none"
    /\ \E key \in HostLines(budget) \cap HostLines(last.before) :
          /\ last.before[key[1]].lineItems[key[2]].secondaryInfoField = 3
          /\ last.before[key[1]].lineItems[key[2]].showSecondaryInfoField
          /\ budget[key[1]].lineItems[key[2]].secondaryInfoField = 2
          /\ budget[key[1]].lineItems[key[2]].showSecondaryInfoField

\* the records of a building whose host line item exists and has no
\* registered transaction
LegacyRecords(name, reg, h) ==
    LET items == LoadedInfo[Occupant(name).holder]
    IN  {i \in DOMAIN items :
           /\ HasLineItem(h, items[i].department, items[i].lineNumber)
           /\ ~HasLineItemTransaction(reg, items[i].department, items[i].lineNumber)}

\* the records of a building whose host line item exists
HostedRecords(name, h) ==
    LET items == LoadedInfo[Occupant(name).holder]
    IN  {i \in DOMAIN items :
           HasLineItem(h, items[i].department, items[i].lineNumber)}

\* C30: in every handling of building-removed that ends, for each record
\* of the building whose host line item exists and whose line has no
\* registered transaction: a line item that counted more than 1 counts one
\* less and its expense total (expense record) or income total (income
\* record) is the one before minus the declared cost of the record, the
\* other total as before; a line item that counted 1 or less is removed;
\* the line has no registered transaction afterwards, and the registry is
\* as before when every hosted record of the building is of this kind.
C30_LegacyRemovalSubtractsCost ==
    [][\A name \in OccupantNames :
         (last'.event = "remove" /\ last'.occupant = name /\ last'.active
            /\ fault' = "none" /\ Occupant(name).type = kOccupantType_Building)
         => /\ \A i \in LegacyRecords(name, customBudgetDepartments, budget) :
                 LET item == LoadedInfo[Occupant(name).holder][i]
                     before == budget[item.department].lineItems[item.lineNumber]
                 IN  /\ ~HasLineItemTransaction(customBudgetDepartments',
                                                item.department, item.lineNumber)
                     /\ IF before.secondaryInfoField > 1
                        THEN /\ HasLineItem(budget', item.department, item.lineNumber)
                             /\ LET after == budget'[item.department]
                                               .lineItems[item.lineNumber]
                                IN  /\ after.secondaryInfoField
                                         = before.secondaryInfoField - 1
                                    /\ IF item.type = "Expense"
                                       THEN /\ after.fullExpenses
                                                 = before.fullExpenses - item.cost
                                            /\ after.income = before.income
                                       ELSE /\ after.income = before.income - item.cost
                                            /\ after.fullExpenses = before.fullExpenses
                        ELSE ~HasLineItem(budget', item.department, item.lineNumber)
            /\ LegacyRecords(name, customBudgetDepartments, budget)
                 = HostedRecords(name, budget)
               => customBudgetDepartments' = customBudgetDepartments]_vars

\* a building that costs 10 was removed from a line of two buildings and
\* the expense 20 that has no registered transaction: one building, 10
C30_Witness ==
    /\ last.event = "remove" /\ last.occupant = <<"fixed", 1, 1>> /\ last.active
    /\ fault = "none"
    /\ customBudgetDepartments = EmptyMap
    /\ HasLineItem(last.before, 1, 1)
    /\ last.before[1].lineItems[1].secondaryInfoField = 2
    /\ last.before[1].lineItems[1].fullExpenses = 20
    /\ HasLineItem(budget, 1, 1)
    /\ budget[1].lineItems[1].secondaryInfoField = 1
    /\ budget[1].lineItems[1].fullExpenses = 10

CustomPurposeIds ==
    {kCustomBudgetDepartmentExpensePurposeId, kCustomBudgetDepartmentIncomePurposeId}

\* the purpose array of an exemplar, empty when it has none
PurposesOf(holder) == GetUint32Vector(holder.purpose).values

\* the purpose array is empty or holds a code that is not a custom one
HasForeignPurpose(holder) ==
    \/ Len(PurposesOf(holder)) = 0
    \/ \E i \in 1..Len(PurposesOf(holder)) : PurposesOf(holder)[i] \notin CustomPurposeIds

\* the purpose array holds no custom code
HasNoCustomPurpose(holder) ==
    \A i \in 1..Len(PurposesOf(holder)) : PurposesOf(holder)[i] \notin CustomPurposeIds

\* the six properties have their types, the four arrays one length and the
\* two tables one number of departments
ArraysAgree(holder) ==
    /\ holder.purpose.type = "Uint32Array" /\ holder.department.type = "Uint32Array"
    /\ holder.line.type = "Uint32Array" /\ holder.cost.type = "Sint64Array"
    /\ GetUint32PairMap(holder.budgetGroup).ok
    /\ GetBudgetDepartmentNameProperty(holder.nameKey).ok
    /\ Len(holder.purpose.values) = Len(holder.department.values)
    /\ Len(holder.line.values) = Len(holder.department.values)
    /\ Len(holder.cost.values) = Len(holder.department.values)
    /\ Cardinality(DOMAIN GetUint32PairMap(holder.budgetGroup).values)
         = Cardinality(DOMAIN GetBudgetDepartmentNameProperty(holder.nameKey).values)

\* position i of the arrays has a custom purpose and a department that both
\* tables list
PositionResolves(holder, i) ==
    /\ holder.purpose.values[i] \in CustomPurposeIds
    /\ holder.department.values[i] \in DOMAIN GetUint32PairMap(holder.budgetGroup).values
    /\ holder.department.values[i]
         \in DOMAIN GetBudgetDepartmentNameProperty(holder.nameKey).values

\* the record that position i of the arrays declares
RecordOfPosition(holder, i) ==
    CustomBudgetDepartmentInfo(
        ItemTypeOf(holder.purpose.values[i]), holder.department.values[i],
        holder.line.values[i],
        GetUint32PairMap(holder.budgetGroup).values[holder.department.values[i]][1],
        holder.cost.values[i],
        GetBudgetDepartmentNameProperty(holder.nameKey).values[holder.department.values[i]])

Handles(name) ==
    /\ last.event \in {"insert", "remove"} /\ last.occupant = name /\ last.active
    /\ Occupant(name).type = kOccupantType_Building

\* C31 as stated: a building whose purpose array is empty or holds at
\* least one code that is neither custom purpose code yields no records,
\* even when other elements are custom codes.
C31_ForeignPurposeYieldsNothing ==
    \A name \in OccupantNames :
       (Handles(name) /\ HasForeignPurpose(Occupant(name).holder))
       => LoadedInfo[Occupant(name).holder] = << >>

\* C31, amended: a building whose purpose array is empty or holds no
\* custom purpose code yields no records; a position with another code
\* yields no record, and the positions with a custom code of a building
\* whose arrays agree yield their records all the same.
C31_NoCustomPurposeYieldsNothing ==
    \A name \in OccupantNames :
       Handles(name)
       => LET holder == Occupant(name).holder
              items == LoadedInfo[holder]
          IN  /\ HasNoCustomPurpose(holder) => items = << >>
              /\ \A k \in DOMAIN items : items[k].type \in {"Expense", "Income"}
              /\ ArraysAgree(holder)
                 => \A i \in 1..Len(holder.purpose.values) :
                       PositionResolves(holder, i)
                       => \E k \in DOMAIN items : items[k] = RecordOfPosition(holder, i)

\* the building with a foreign purpose code among its three was inserted
\* in a city without line items: line 1 of department 1 costs 10, and there
\* is no line 2
C31_Witness ==
    /\ last.event = "insert" /\ last.occupant = <<"sideline", 1, 1>> /\ last.active
    /\ last.before = EmptyMap
    /\ HasForeignPurpose(Occupant(<<"sideline", 1, 1>>).holder)
    /\ HasLineItem(budget, 1, 1)
    /\ ~HasLineItem(budget, 1, 2)
    /\ budget[1].lineItems[1].fullExpenses = 10
    /\ HasLineItemTransaction(customBudgetDepartments, 1, 1)

\* the positions of the arrays whose department both tables list
ListedPositions(holder) ==
    {i \in 1..Len(holder.department.values) :
        /\ holder.department.values[i]
             \in DOMAIN GetUint32PairMap(holder.budgetGroup).values
        /\ holder.department.values[i]
             \in DOMAIN GetBudgetDepartmentNameProperty(holder.nameKey).values}

\* the records of the positions, in the order of the positions
RecordsOfPositions(holder, positions) ==
    [k \in 1..Cardinality(positions) |->
       RecordOfPosition(holder,
           CHOOSE i \in positions : Cardinality({j \in positions : j <= i}) = k)]

\* C32 as stated: no records when the four arrays do not have one length
\* or the two tables do not list the same number of departments; when they
\* agree, position i yields a record exactly when both tables list its
\* department, with the group and name key of the department and the line
\* number and cost of the position.
C32_ListedPositionsYieldRecords ==
    \A name \in OccupantNames :
       Handles(name)
       => LET holder == Occupant(name).holder
          IN  IF ArraysAgree(holder)
              THEN LoadedInfo[holder]
                     = RecordsOfPositions(holder, ListedPositions(holder))
              ELSE LoadedInfo[holder] = << >>

\* C32, amended: as stated, with the positions that yield a record being
\* those whose purpose code is a custom one and whose department both
\* tables list.
C32_ResolvedPositionsYieldRecords ==
    \A name \in OccupantNames :
       Handles(name)
       => LET holder == Occupant(name).holder
          IN  IF ArraysAgree(holder)
              THEN LoadedInfo[holder]
                     = RecordsOfPositions(holder,
                          {i \in ListedPositions(holder) :
                              holder.purpose.values[i] \in CustomPurposeIds})
              ELSE LoadedInfo[holder] = << >>

\* the building with an entry of a department that the tables do not list
\* was inserted in the city of two buildings on line 1 of department 1: the
\* line counts three and the budget has no such department
C32_Witness ==
    /\ last.event = "insert" /\ last.occupant = <<"sideline", 1, 1>> /\ last.active
    /\ fault = "none"
    /\ ArraysAgree(Occupant(<<"sideline", 1, 1>>).holder)
    /\ last.before = LegacyBudgetOfTwo
    /\ UnlistedDepartment \notin DOMAIN budget
    /\ HasLineItem(budget, 1, 1)
    /\ budget[1].lineItems[1].secondaryInfoField = 3

\* the Tourism table of the exemplar is made of groups of four and one of
\* them names the line, with a numerator and a denominator that
\* Rational64ToFloat takes
DeclaresTourismGroup(holder, lineNumber) ==
    /\ holder.tourism.type = "Sint64Array"
    /\ Len(holder.tourism.values) >= kTourismGroupCount
    /\ Len(holder.tourism.values) % kTourismGroupCount = 0
    /\ GroupsOfLine(holder.tourism.values, lineNumber) # {}
    /\ LET group == DeclaredGroup(holder, lineNumber)
       IN  ~Rational64ToFloat(group[2], group[3]).threw

\* C33: for a Tourism table of any number of groups of four and a line
\* number that is the first element of one of them, the construction from
\* building data succeeds and the algorithm carries the numerator over the
\* denominator and the geopolitics factor of the first group of that line,
\* whatever the position of the group in the table.
C33_TourismGroupIsFoundAnywhere ==
    [][(last'.event = "insert" /\ last'.active) =>
         \A refuse \in RefuseChoices, ub \in UndefinedOutcomes :
            InsertionYieldsStep(refuse, ub)
            => \A i \in DOMAIN RecordsOf(last'.occupant) :
                  LET holder == Occupant(last'.occupant).holder
                      item == RecordsOf(last'.occupant)[i]
                  IN  (/\ ConstructsAlgorithm(last'.occupant, i, refuse, ub)
                       /\ TypeOfLine(holder, item.lineNumber) = Tourism
                       /\ DeclaresTourismGroup(holder, item.lineNumber))
                      => LET made == CreateFromHolder(holder, Tourism, item.lineNumber,
                                                      item.type = "Income", ub)
                         IN  /\ ~made.threw
                             /\ made.fault = "none"
                             /\ made.algorithm
                                  = DeclaredAlgorithm(holder, Tourism, item.lineNumber,
                                                      item.type = "Income")]_vars

\* the four bytes of the float are somewhere in the stream
StreamHolds(bytes, factor) ==
    \E p \in 1..(Len(bytes) - 3) : SubSeq(bytes, p, p + 3) = F32Bytes(factor)

\* C34: after a load that restored the registry from a stream, every
\* factor of a registered algorithm is 0 or is a float of that stream: an
\* algorithm whose payload could not be read holds the zero factors of the
\* construction from its type tag.
C34_RestoredFactorsAreZeroOrStored ==
    (/\ last.event = "load" /\ segment.present /\ fault = "none"
     /\ customBudgetDepartments = ReadFromDBSegment(EmptyMap, segment.bytes).reg)
    => \A tx \in RegisteredTransactions :
          \A k \in DOMAIN tx.algorithm.factors :
             \/ tx.algorithm.factors[k] = FZero
             \/ StreamHolds(segment.bytes, tx.algorithm.factors[k])

\* the (department, line) pairs of the registry
RegisteredLines(reg) ==
    {<<department, line>> \in (DOMAIN reg) \X (1..(MaxLine + 1)) :
        line \in DOMAIN reg[department]}

\* a transaction is registered exactly for the lines of the host, and every
\* line of the host counts at least one building
RegistryMatchesHost(reg, h) ==
    /\ RegisteredLines(reg) = HostLines(h)
    /\ \A key \in HostLines(h) : h[key[1]].lineItems[key[2]].secondaryInfoField >= 1

\* C35: in an active session, a building-inserted, building-removed or
\* month-elapsed event that starts where a transaction is registered exactly
\* for the lines of the host, each counting at least one building, ends
\* there too; the empty registry and the host without lines are such a
\* start.
C35_RegistryMatchesHostLines ==
    [][(/\ last'.event \in {"insert", "remove", "month"}
        /\ last'.active
        /\ RegistryMatchesHost(customBudgetDepartments, budget))
       => RegistryMatchesHost(customBudgetDepartments', budget')]_vars

\* the one building of line 1 of department 2, a department that only an
\* insertion of the session can have created, was removed: the host has no
\* line of department 2 and the registry no transaction for one
C35_Witness ==
    /\ last.event = "remove" /\ last.occupant = <<"fixed", 2, 1>> /\ last.active
    /\ fault = "none"
    /\ HasLineItem(last.before, 2, 1)
    /\ last.before[2].lineItems[1].secondaryInfoField = 1
    /\ ~HasLineItem(budget, 2, 1)
    /\ ~HasLineItemTransaction(customBudgetDepartments, 2, 1)
    /\ RegistryMatchesHost(customBudgetDepartments, budget)

\* C37: where a transaction is registered exactly for the lines of the
\* host, after the handling of building-inserted, and before the handling
\* of building-removed, every record of the building whose line has a
\* registered transaction and a host line item is of the kind of the
\* transaction's income flag, which month-elapsed goes by, and of the kind
\* of the host line item: the handlers write the total of the line to one
\* field.
C37_HandlersAgreeOnTheField ==
    [][(last'.event \in {"insert", "remove"} /\ last'.active /\ fault' = "none"
          /\ Occupant(last'.occupant).type = kOccupantType_Building
          /\ RegistryMatchesHost(customBudgetDepartments, budget))
       => LET reg == IF last'.event = "insert" THEN customBudgetDepartments'
                     ELSE customBudgetDepartments
              h == IF last'.event = "insert" THEN budget' ELSE budget
              items == RecordsOf(last'.occupant)
          IN  \A i \in DOMAIN items :
                 (/\ HasLineItemTransaction(reg, items[i].department,
                                            items[i].lineNumber)
                  /\ HasLineItem(h, items[i].department, items[i].lineNumber))
                 => /\ IsIncome(reg[items[i].department][items[i].lineNumber])
                         = (items[i].type = "Income")
                    /\ h[items[i].department].lineItems[items[i].lineNumber].type
                         = items[i].type]_vars

\* the total of a host line item of the kind of its transaction
TotalOfKind(tx, lineItem) ==
    IF IsIncome(tx) THEN lineItem.income ELSE lineItem.fullExpenses

\* every host line item whose registered transaction is fixed-cost has the
\* total of the stored amount times the building counter
FixedTotalsAreBaselineTimesCount(reg, h) ==
    \A key \in RegisteredLines(reg) \cap HostLines(h) :
       IsFixedCost(reg[key[1]][key[2]])
       => TotalOfKind(reg[key[1]][key[2]], h[key[1]].lineItems[key[2]])
            = reg[key[1]][key[2]].perBuildingFixedCashFlow
                * h[key[1]].lineItems[key[2]].secondaryInfoField

\* C36: in an active session, an insertion or a removal that starts where
\* a transaction is registered exactly for the lines of the host and every
\* line with a fixed-cost transaction has the total of the transaction's
\* baseline times the building counter ends with such totals, and the
\* baseline of a line that stays registered is the one it had: the cost of
\* a building inserted later does not enter the total.
C36_FixedTotalIsBaselineTimesCounter ==
    [][(/\ last'.event \in {"insert", "remove"} /\ last'.active /\ fault' = "none"
        /\ RegistryMatchesHost(customBudgetDepartments, budget)
        /\ FixedTotalsAreBaselineTimesCount(customBudgetDepartments, budget))
       => /\ FixedTotalsAreBaselineTimesCount(customBudgetDepartments', budget')
          /\ \A key \in RegisteredLines(customBudgetDepartments)
                          \cap RegisteredLines(customBudgetDepartments') :
                customBudgetDepartments'[key[1]][key[2]].perBuildingFixedCashFlow
                  = customBudgetDepartments[key[1]][key[2]].perBuildingFixedCashFlow]_vars

\* C38: every transaction that is in the registry before a
\* building-inserted event is in the registry, unchanged, after it: the
\* rollback of an insertion that the host refuses removes only a
\* transaction that the insertion created.
C38_RollbackKeepsEarlierTransactions ==
    [][(last'.event = "insert" /\ last'.active)
       => \A key \in RegisteredLines(customBudgetDepartments) :
             /\ key \in RegisteredLines(customBudgetDepartments')
             /\ customBudgetDepartments'[key[1]][key[2]]
                  = customBudgetDepartments[key[1]][key[2]]]_vars

\* the counter of a line of the host, 0 for a line the host does not have
CounterOf(h, department, line) ==
    IF HasLineItem(h, department, line)
    THEN h[department].lineItems[line].secondaryInfoField
    ELSE 0

\* what C39 says of the i-th record of the insertion that the step is, when
\* a transaction is registered for the record's line as the insertion
\* comes to it: the
\* transaction is found and the registry is as it was, whichever building's
\* data is at hand and whatever a read of malformed data would do; the
\* transaction is as it was after the record is handled, unless the host
\* has refused the line; and with the line in the host the building is
\* counted
RecordReusesTransaction(name, i, refuse, ub) ==
    LET item == RecordsOf(name)[i]
        pre == BeforeRecord(name, i, refuse, ub)
        post == InsertItem(pre, Occupant(name).holder, item, refuse,
                           populationProvider, city, ub)
    IN  (/\ pre.fault = "none"
         /\ HasLineItemTransaction(pre.reg, item.department, item.lineNumber)
         /\ InsertionYieldsStep(refuse, ub))
        => /\ \A other \in OccupantNames, outcome \in UndefinedOutcomes :
                GetOrCreateLineItemTransaction(pre.reg, Occupant(other).holder,
                                               item, outcome)
                  = [found |-> TRUE, fault |-> "none", reg |-> pre.reg]
           /\ HasLineItemTransaction(post.reg, item.department, item.lineNumber)
                => post.reg = pre.reg
           /\ HasLineItem(post.host, item.department, item.lineNumber)
                => /\ post.reg = pre.reg
                   /\ CounterOf(post.host, item.department, item.lineNumber)
                        = CounterOf(pre.host, item.department, item.lineNumber) + 1

=============================================================================
